---- MODULE Spec2Model ----
(***************************************************************************)
(* Model of the standalone volume bot: the order tracker                   *)
(* (src/order_manager.py), the decision engine and the run loop            *)
(* (src/main.py), the price walk (src/price_strategy.py) and the order     *)
(* book helpers (src/market_data.py).                                      *)
(*                                                                         *)
(* The exchange client (ccxt) is the environment.  It keeps one status per *)
(* order id and answers truthfully: a cancel succeeds only on an open      *)
(* order, and an error message that contains 'not found' or 'already' is   *)
(* only produced for an order that is no longer open.  Any call may also   *)
(* fail with another message, and any await may be interrupted by          *)
(* asyncio.CancelledError, which is a BaseException and so passes every    *)
(* `except Exception` handler.                                             *)
(***************************************************************************)
EXTENDS Integers, Sequences, FiniteSets, TLC

\* ------------------------------------------------------------------ bounds
MaxIds == 2
MaxTime == 1

\* the length of one clock tick, in seconds
TickSeconds == 3600

\* --------------------------------------------------------------- constants
None == "None"
NoTime == -1
NoPrice == -1       \* price=None
NoId == 0           \* an order record without an id
NoCount == -1       \* no return value: the call raised
COMPLETED_ORDER_STATUSES == {"closed", "filled", "canceled"}

VARIABLES
    open_orders,    \* OrderManager.open_orders: list of tracked ids
    exch,           \* exchange side: status of every order id
    nextId,         \* exchange side: next id the exchange hands out
    returned,       \* exchange side: the ids it returned to place_order
    now,            \* datetime.now(), in clock ticks of TickSeconds
    call,           \* the call that produced this state and its result
    config,         \* VolumeGenerationStrategy.config (immutable settings)
    last_order_time,                \* VolumeGenerationStrategy state
    volume_generated_today_usdt,
    order_count,
    last_order_side,                \* PriceStrategy state
    price_walk_step,
    pc,             \* position of main / run_volume_generation
    running,        \* StandaloneVolumeBot.running
    total_orders,   \* StandaloneVolumeBot.stats['total_orders']
    last_cleanup,   \* local of run_volume_generation
    cleanup_due,    \* history: the cleanup interval had passed when the
                    \* iteration under way began, and it has not cleaned up
    end_time,       \* local of run_volume_generation (NoTime: None)
    duration_hours, \* argument of run_volume_generation (NoTime: None)
    market_data,    \* local of run_volume_generation
    balance,        \* local of run_volume_generation
    order,          \* locals side, size, price of run_volume_generation
    final_cancel,   \* the final cleanup invoked cancel_open_orders
    heap,           \* the objects of the strategy instances made on the
                    \* exchange: which instance the caller operates
                    \* (self), the objects each instance refers to, and
                    \* the attributes of every object; the variables
                    \* open_orders, last_order_time, ... are the
                    \* attributes reached through self
    passes          \* the tracker pass each task is suspended in, if any:
                    \* the locals of cancel_open_orders and
                    \* cleanup_completed_orders

trackerVars == <<open_orders, exch, nextId, returned>>
stratVars == <<last_order_time, volume_generated_today_usdt, order_count,
               last_order_side, price_walk_step>>
botVars == <<pc, running, total_orders, last_cleanup, cleanup_due, end_time, duration_hours, market_data,
             balance, order, final_cancel>>
vars == <<open_orders, exch, nextId, returned, now, call, config, heap, passes,
          last_order_time, volume_generated_today_usdt, order_count,
          last_order_side, price_walk_step, pc, running, total_orders,
          last_cleanup, cleanup_due, end_time, duration_hours, market_data, balance, order, final_cancel>>

Ids == 1..MaxIds

\* ------------------------------------------------------- instances
\* Two VolumeGenerationStrategy instances are made on one exchange.  An
\* object is named by the number of the constructor call that made it.
Instances == {1, 2}

Construct_ClassLevelList(n) == [open_orders |-> 1, price_strategy |-> n]

\* VolumeGenerationStrategy.__init__ for the n-th instance made: the calls
\* OrderManager(exchange, symbol) and PriceStrategy(...) of main.py:130-131
\* make a new object each, and `self.open_orders = []`
\* (order_manager.py:21) binds a new list to the new OrderManager; the
\* result tells which list and which PriceStrategy the instance refers to
Construct(n) == [open_orders |-> n, price_strategy |-> n]

\* self.last_order_time = None, self.volume_generated_today_usdt = 0.0,
\* self.order_count = 0 (main.py:155-157)
NewStrategy ==
    [last_order_time |-> NoTime, volume_generated_today_usdt |-> 0,
     order_count |-> 0]

\* self.price_walk_step = 0, self.last_order_side = None
\* (price_strategy.py:24-25)
NewPriceStrategy == [last_order_side |-> None, price_walk_step |-> 0]

\* the objects once both instances are made; the caller operates the first
NewHeap ==
    [self |-> 1,
     refs |-> [n \in Instances |-> Construct(n)],
     lists |-> [o \in Instances |-> <<>>],
     strategies |-> [n \in Instances |-> NewStrategy],
     price_strategies |-> [o \in Instances |-> NewPriceStrategy]]

\* the attributes instance n reaches through its references:
\* self.order_manager.open_orders, its own counters, and
\* self.price_strategy.last_order_side / price_walk_step
Attributes(h, n) ==
    [open_orders |-> h.lists[h.refs[n].open_orders],
     strategy |-> h.strategies[n],
     price_strategy |-> h.price_strategies[h.refs[n].price_strategy]]

\* an operation of the instance the caller operates writes the attributes
\* it assigns into the objects self refers to: the list of its
\* OrderManager (append and remove, order_manager.py:48, 84, 115), its own
\* counters (main.py:276-278) and its PriceStrategy
\* (price_strategy.py:41, 78)
StoreSelf ==
    heap' = [heap EXCEPT
                 !.lists[heap.refs[heap.self].open_orders] = open_orders',
                 !.strategies[heap.self] =
                     [last_order_time |-> last_order_time',
                      volume_generated_today_usdt |->
                          volume_generated_today_usdt',
                      order_count |-> order_count'],
                 !.price_strategies[heap.refs[heap.self].price_strategy] =
                     [last_order_side |-> last_order_side',
                      price_walk_step |-> price_walk_step']]

ExchStatuses == {"none", "open", "closed", "filled", "canceled", "gone"}

\* An error message is modelled by the set of the substrings the code looks
\* for that its lower-cased text contains.
Keywords == {"not found", "already"}
ErrMsgs == SUBSET Keywords

Sides == {"buy", "sell"}
Amounts == {5}
Prices == {NoPrice, 0, 2}

\* ------------------------------------------------------- sequence helpers
Range(s) == {s[i] : i \in 1..Len(s)}

\* list.remove(x): drops the first occurrence
ListRemove(s, x) ==
    LET i == CHOOSE j \in 1..Len(s) : s[j] = x /\ \A k \in 1..(j-1) : s[k] # x
    IN SubSeq(s, 1, i-1) \o SubSeq(s, i+1, Len(s))

\* for order_id in orders_to_remove: if order_id in open_orders: remove
RECURSIVE RemoveTracked(_, _)
RemoveTracked(list, rem) ==
    IF rem = <<>> THEN list
    ELSE RemoveTracked(IF Head(rem) \in Range(list)
                       THEN ListRemove(list, Head(rem)) ELSE list,
                       Tail(rem))

\* `call` holds the call that produced the current state, if a call did
NoCall == [op |-> "none", before |-> <<>>, oc |-> <<>>, raised |-> FALSE,
           ret |-> None, req |-> None]

\* ------------------------------------------------------- tracker passes
\* cancel_open_orders and cleanup_completed_orders suspend at every exchange
\* call of their loop (order_manager.py:70, 101): other tasks, the exchange
\* and the clock move on in between.  A pass under way is modelled by its
\* locals: the copy of the tracker its loop runs over (start), the position
\* in it (i), orders_to_remove, the count, and as history the answers it got
\* (oc) and the ids it asked the exchange about (asked).  owner tells who
\* awaits the pass: a caller of the tracker or should_trade.
\*
\* An answer of the exchange: k = "ok": the awaited call returned; "err": it
\* raised an Exception with message msg; "interrupt": CancelledError was
\* delivered at the await.
Ok == [k |-> "ok", msg |-> {}, status |-> None]
Err(m) == [k |-> "err", msg |-> m, status |-> None]
Interrupted == [k |-> "interrupt", msg |-> {}, status |-> None]
Status(s) == [k |-> "ok", msg |-> {}, status |-> s]

Tasks == {"a", "b"}
PassKinds == {"cancel", "cleanup"}

IdlePass ==
    [kind |-> "idle", owner |-> None, start |-> <<>>, i |-> 1,
     orders_to_remove |-> <<>>, count |-> 0, oc |-> <<>>, asked |-> {}]
NoPasses == [t \in Tasks |-> IdlePass]

\* task t is suspended inside a pass
InPass(t) == passes[t].kind \in PassKinds

PassItems_Live(start, live) == live

\* `for order_id in self.open_orders[:]`: the loop runs over the copy made
\* when it starts (order_manager.py:68, 99)
PassItems(start, live) == start

\* the loop of task t has an exchange call left to make
PassAsking(t) ==
    /\ InPass(t)
    /\ passes[t].i <= Len(PassItems(passes[t].start, open_orders))

\* the loop of task t is over: the removal loop comes next
PassAnswered(t) ==
    /\ InPass(t)
    /\ passes[t].i > Len(PassItems(passes[t].start, open_orders))

\* ---------------------------------------------------- cancel_open_orders
CancelRemovable_NotFoundOnly(msg) == "not found" \in msg

\* 'not found' in str(e).lower() or 'already' in str(e).lower()
CancelRemovable(msg) == "not found" \in msg \/ "already" \in msg

\* what exchange.cancel_order(id) can answer for an order in status st
CancelAnswers(st) ==
    {Err({})}
    \cup (IF st = "open" THEN {Ok} ELSE {Err(m) : m \in ErrMsgs \ {{}}})

CancelToRemove_All(o) == TRUE

\* orders_to_remove.append(order_id) of lines 73 and 77
CancelToRemove(o) == o.k = "ok" \/ (o.k = "err" /\ CancelRemovable(o.msg))

CancelledCount_Removed(o) == CancelToRemove(o)

\* cancelled_count += 1 (line 72)
CancelledCount(o) == o.k = "ok"

CancelExchange_AllOpen(ex, id, o) ==
    [i \in Ids |-> IF ex[i] = "open" THEN "canceled" ELSE ex[i]]

\* the exchange after cancel_order(id) was answered: an order whose cancel
\* succeeded is canceled
CancelExchange(ex, id, o) ==
    IF o.k = "ok" THEN [ex EXCEPT ![id] = "canceled"] ELSE ex

\* ------------------------------------------------ cleanup_completed_orders
CleanupRemovable_LikeCancel(o) ==
    \/ o.k = "ok" /\ o.status \in COMPLETED_ORDER_STATUSES
    \/ o.k = "err" /\ ("not found" \in o.msg \/ "already" \in o.msg)

\* status in COMPLETED_ORDER_STATUSES, or 'not found' in str(e).lower()
CleanupRemovable(o) ==
    \/ o.k = "ok" /\ o.status \in COMPLETED_ORDER_STATUSES
    \/ o.k = "err" /\ "not found" \in o.msg

\* what exchange.fetch_order(id) can answer for an order in status st
FetchAnswers(st) ==
    {Err({})}
    \cup (IF st \in {"open", "closed", "filled", "canceled"}
          THEN {Status(st)} ELSE {})
    \cup (IF st = "gone" THEN {Err(m) : m \in ErrMsgs \ {{}}} ELSE {})

\* ------------------------------------------------- the steps of a pass
PassOp(kind) ==
    IF kind = "cancel" THEN "cancel_open_orders" ELSE "cleanup_completed_orders"

\* lines 65-68 and 96-99: the pass of task t starts on a non-empty tracker
StartPass(t, kind, owner) ==
    passes' = [passes EXCEPT ![t] =
                  [IdlePass EXCEPT !.kind = kind, !.owner = owner,
                                   !.start = open_orders]]

\* lines 69-79 and 100-110: the exchange answers the call the loop of task t
\* is suspended on, and the loop goes to its next turn
TakeAnswer(t, o) ==
    LET ps == passes[t]
        id == PassItems(ps.start, open_orders)[ps.i]
        removable == IF ps.kind = "cancel" THEN CancelToRemove(o)
                     ELSE CleanupRemovable(o)
        counted == IF ps.kind = "cancel" THEN CancelledCount(o) ELSE removable
    IN /\ passes' =
              [passes EXCEPT ![t] =
                  [ps EXCEPT
                      !.i = ps.i + 1,
                      !.orders_to_remove = IF removable THEN Append(@, id) ELSE @,
                      !.count = IF counted THEN @ + 1 ELSE @,
                      !.oc = Append(@, o),
                      !.asked = @ \cup {id}]]
       /\ exch' = IF ps.kind = "cancel" THEN CancelExchange(exch, id, o)
                  ELSE exch

\* what exchange call the loop of task t is suspended on can answer
PassAnswers(t) ==
    LET ps == passes[t]
        id == PassItems(ps.start, open_orders)[ps.i]
    IN IF ps.kind = "cancel" THEN CancelAnswers(exch[id])
       ELSE FetchAnswers(exch[id])

\* lines 82-84 and 113-115: the removal loop, which has no await
Removal(t) == RemoveTracked(open_orders, passes[t].orders_to_remove)

\* the pass of task t is over
DropPass(t) == passes' = [passes EXCEPT ![t] = IdlePass]

\* the call record of a pass of task t that returned its count
PassReturned(t) ==
    [op |-> PassOp(passes[t].kind), before |-> passes[t].start,
     oc |-> passes[t].oc, raised |-> FALSE, ret |-> passes[t].count,
     req |-> None]

\* the call record of a pass of task t left by CancelledError
PassRaised(t) ==
    [op |-> PassOp(passes[t].kind), before |-> passes[t].start,
     oc |-> Append(passes[t].oc, Interrupted), raised |-> TRUE,
     ret |-> NoCount, req |-> None]

EmptyPass_CountsTracker(kind) ==
    [op |-> PassOp(kind), before |-> <<>>, oc |-> <<Ok>>, raised |-> FALSE,
     ret |-> 1, req |-> None]

\* `if not self.open_orders: return 0` (lines 62-63, 93-94): the call record
\* of a pass called on an empty tracker
EmptyPass(kind) ==
    [op |-> PassOp(kind), before |-> <<>>, oc |-> <<>>, raised |-> FALSE,
     ret |-> 0, req |-> None]

\* task t calls cancel_open_orders or cleanup_completed_orders: on an empty
\* tracker the call returns 0 at once, otherwise it enters its loop and
\* suspends at the first exchange call
BeginPass(t, kind) ==
    /\ ~InPass(t)
    /\ IF open_orders = <<>>
       THEN /\ call' = EmptyPass(kind)
            /\ UNCHANGED passes
       ELSE /\ StartPass(t, kind, "caller")
            /\ call' = NoCall
    /\ UNCHANGED <<open_orders, exch, nextId, returned, now, config, heap,
                   stratVars, botVars>>

cancel_open_orders == BeginPass("a", "cancel")

cleanup_completed_orders == BeginPass("a", "cleanup")

\* one turn of the loop of a pass, with the answer of the exchange
StepPass(t) ==
    /\ PassAsking(t)
    /\ \E o \in PassAnswers(t) : TakeAnswer(t, o)
    /\ call' = NoCall
    /\ UNCHANGED <<open_orders, nextId, returned, now, config, heap,
                   stratVars, botVars>>

\* the exchange when CancelledError reaches the pass of task t at the call
\* it is suspended on (order_manager.py:70, 101): the request may be on its
\* way, or carried out with the answer not yet taken, and a cancel_order
\* carried out has canceled an open order
InFlight(t) ==
    LET ps == passes[t]
        id == PassItems(ps.start, open_orders)[ps.i]
    IN {exch}
       \cup (IF ps.kind = "cancel" /\ exch[id] = "open"
             THEN {CancelExchange(exch, id, Ok)} ELSE {})

\* CancelledError is delivered at the exchange call a pass called on the
\* tracker is suspended on: the pass is left without its removal loop
InterruptPass(t) ==
    /\ PassAsking(t)
    /\ passes[t].owner = "caller"
    /\ call' = PassRaised(t)
    /\ exch' \in InFlight(t)
    /\ DropPass(t)
    /\ UNCHANGED <<open_orders, nextId, returned, now, config, heap,
                   stratVars, botVars>>

\* lines 81-89 and 112-120: the removal loop and the return of the count
EndPass(t) ==
    /\ PassAnswered(t)
    /\ passes[t].owner = "caller"
    /\ open_orders' = Removal(t)
    /\ call' = PassReturned(t)
    /\ DropPass(t)
    /\ UNCHANGED <<exch, nextId, returned, now, config, stratVars, botVars>>
    /\ StoreSelf

\* ------------------------------------------------------------ place_order
\* `if price:` and `amount * price if price else 0`: None and 0 are falsy
Truthy_NotNone(price) == price # NoPrice

Truthy(price) == price # NoPrice /\ price # 0

OrderKind(price) == IF Truthy(price) THEN "limit" ELSE "market"

\* f"{price:.8f}" (lines 29 and 51) raises TypeError when price is None
FormatRaises(price) == price = NoPrice

\* what create_limit_order / create_market_order can answer: an order with
\* an id, an order without one, an Exception, or an interruption
CreateOutcomes == {"id", "noid", "err", "interrupt"}

TrackAfterCreate_Never(list, outcome, id) == list

\* if order.get('id'): self.open_orders.append(order['id'])
TrackAfterCreate(list, outcome, id) ==
    IF outcome = "id" THEN Append(list, id) ELSE list

\* return {'error': str(e)}
ErrorRecord == [error |-> TRUE]

\* the synthesized record of lines 30-39; its id is built from the clock
DryRunOrder(side, amount, price) ==
    [error |-> FALSE, id |-> now, side |-> side, amount |-> amount,
     price |-> price, status |-> "closed", dry_run |-> TRUE]

PlaceDryRun(side, amount, price) ==
    /\ call' = [op |-> "place_order", before |-> open_orders, oc |-> <<>>,
                raised |-> FALSE,
                ret |-> IF FormatRaises(price) THEN ErrorRecord
                        ELSE DryRunOrder(side, amount, price),
                req |-> [side |-> side, amount |-> amount, price |-> price,
                         dry_run |-> TRUE, kind |-> None, outcome |-> None,
                         newid |-> NoId]]
    /\ UNCHANGED <<open_orders, exch, nextId, returned>>

PlaceLive(side, amount, price, outcome, created) ==
    LET made == outcome = "id" \/ (outcome = "interrupt" /\ created)
    IN
    /\ made => nextId <= MaxIds
    /\ open_orders' = TrackAfterCreate(open_orders, outcome, nextId)
    /\ exch' = IF made THEN [exch EXCEPT ![nextId] = "open"] ELSE exch
    /\ nextId' = IF made THEN nextId + 1 ELSE nextId
    /\ returned' = IF outcome = "id" THEN returned \cup {nextId} ELSE returned
    /\ call' = [op |-> "place_order", before |-> open_orders, oc |-> <<>>,
                raised |-> (outcome = "interrupt"),
                ret |-> IF outcome = "interrupt" THEN None
                        ELSE IF outcome = "err" \/ FormatRaises(price)
                             THEN ErrorRecord
                        ELSE [error |-> FALSE,
                              id |-> IF outcome = "id" THEN nextId ELSE NoId,
                              side |-> side, amount |-> amount,
                              price |-> price, status |-> "open",
                              dry_run |-> FALSE],
                req |-> [side |-> side, amount |-> amount, price |-> price,
                         dry_run |-> FALSE, kind |-> OrderKind(price),
                         outcome |-> outcome,
                         newid |-> IF outcome = "id" THEN nextId ELSE NoId]]

place_order ==
    /\ \E side \in Sides, amount \in Amounts, price \in Prices :
        \/ PlaceDryRun(side, amount, price)
        \/ \E outcome \in CreateOutcomes, created \in BOOLEAN :
               /\ outcome # "interrupt" => created = (outcome = "id")
               /\ PlaceLive(side, amount, price, outcome, created)
    /\ UNCHANGED <<now, config, passes, stratVars, botVars>>
    /\ StoreSelf

\* ------------------------------------------------------------ environment
\* an open order reaches one of the given statuses on the exchange side
ExchangeResolveTo(statuses) ==
    \E i \in Ids, s \in statuses :
        /\ exch[i] = "open"
        /\ exch' = [exch EXCEPT ![i] = s]
        /\ call' = NoCall
        /\ UNCHANGED <<open_orders, nextId, returned, now, config, heap, passes, stratVars, botVars>>

\* an open order fills, closes or is canceled on the exchange side
ExchangeResolve == ExchangeResolveTo(COMPLETED_ORDER_STATUSES)

\* an open order fills on the exchange side
ExchangeFill == ExchangeResolveTo({"filled"})

\* the exchange forgets a completed order: queries then fail with not found
ExchangePurge ==
    \E i \in Ids :
        /\ exch[i] \in COMPLETED_ORDER_STATUSES
        /\ exch' = [exch EXCEPT ![i] = "gone"]
        /\ call' = NoCall
        /\ UNCHANGED <<open_orders, nextId, returned, now, config, heap, passes, stratVars, botVars>>

Tick ==
    /\ now < MaxTime
    /\ now' = now + 1
    /\ call' = NoCall
    /\ UNCHANGED <<open_orders, exch, nextId, returned, config, heap, passes, stratVars, botVars>>

\* a live limit order is placed while passes are under way
PlaceDuringPass ==
    /\ call = NoCall
    /\ \E outcome \in {"id", "err"} :
           PlaceLive("buy", 5, 2, outcome, outcome = "id")
    /\ UNCHANGED <<now, config, passes, stratVars, botVars>>
    /\ StoreSelf

\* ================================================= decision engine
\* Fixed-point units.  A price is an integer number of thousandths of a
\* USDT; a target price is in 1/PScale of that unit; a size is in 1/SizeScale
\* of a token, a unit in which the quotients of the minimum order values by
\* the prices 0.002, 0.009 and 0.1 are whole; an order value and the
\* generated volume are a size times a price, that is ValueScale units per
\* USDT.  Ratios are in thousandths,
\* randomization factors in tenths (size, price) or hundredths (timing),
\* probabilities and np.random.random() draws in hundredths, the spread in
\* basis points, the confidence in tenths.  The input sets below are chosen
\* so that every quotient the code computes is exact in these units; where
\* the code's double arithmetic departs from the exact value and a
\* comparison depends on it, the departure is given by RoundsBelow.
PScale == 100000
SizeScale == 9000
ValueScale == 9000000

BASE_PRICE_STEP_RATIO == 1              \* 0.001, in thousandths
PRICE_RANDOMIZATION_FACTOR == 5         \* 0.5, in tenths
ORDER_SIDE_ALTERNATE_PROBABILITY == 80  \* 0.8, in hundredths
PRICE_ADJUSTMENT_PROBABILITY == 70      \* 0.7, in hundredths
LIQUIDITY_USAGE_RATIO == 5              \* 0.5, in tenths
BURST_MODE_INTERVAL_MULTIPLIER == 3     \* 0.3, in tenths
QUIET_MODE_INTERVAL_MULTIPLIER == 30    \* 3.0, in tenths
PRICE_WALK_DIRECTIONS == {"up", "down", "sideways", "random"}

\* bounds on order_count and on price_walk_step (in tenths of a radian)
MaxOrders == 2
MaxPhase == 4

\* a validated configuration (ConfigValidator.validate_strategy_config)
BaseConfig ==
    [target_volume_usdt_per_hour |-> 10,
     price_walk_direction |-> "sideways",
     max_price_deviation |-> 1000,      \* 0.01, in 1/PScale
     order_frequency |-> 3600,          \* seconds
     min_order_ratio |-> 1,             \* 0.001
     max_order_ratio |-> 5,             \* 0.005
     size_randomization |-> 3,          \* 0.3, in tenths
     timing_randomization |-> 50,       \* 0.5, in hundredths
     burst_probability |-> 5,           \* 0.05
     quiet_probability |-> 15,          \* 0.15
     min_order_value_usdt |-> 5,
     max_spread_threshold |-> 500,      \* 0.05, in basis points
     cancel_previous_orders |-> TRUE,
     dry_run |-> FALSE,                 \* VolumeConfig.DRY_RUN
     MIN_ORDER_VALUE_USDT |-> 5]        \* VolumeConfig.MIN_ORDER_VALUE_USDT

\* the configurations the decision engine is checked with
Configs ==
    {[BaseConfig EXCEPT !.price_walk_direction = d,
                        !.cancel_previous_orders = c] :
        d \in PRICE_WALK_DIRECTIONS, c \in BOOLEAN}

\* np.random.random(), in hundredths
Draws100 == {0, 10, 99}

Min(a, b) == IF a <= b THEN a ELSE b
Max(a, b) == IF a >= b THEN a ELSE b

\* ------------------------------------------------------- market snapshot
\* ticker: <<>> has no 'last' key, <<x>> has last = x (NoPrice: last is None)
\* orderbook: bids and asks are lists of <<price, size>>, best first
Book(b, a) == [bids |-> b, asks |-> a]
EmptyBook == Book(<<>>, <<>>)
TightBook == Book(<<<<100, 10000>>>>, <<<<101, 12000>>>>)
WideBook == Book(<<<<100, 10000>>>>, <<<<110, 12000>>>>)
OneSidedBook == Book(<<<<100, 10000>>>>, <<>>)
ZeroBidBook == Book(<<<<0, 10000>>>>, <<<<101, 12000>>>>)
MalformedBook == Book(<<<<>>>>, <<<<101, 12000>>>>)
Books == {EmptyBook, TightBook, WideBook, OneSidedBook, ZeroBidBook, MalformedBook}

Tickers == {<<>>, <<NoPrice>>, <<0>>, <<2>>}

\* the snapshots should_trade is called with: none, an unusable last price,
\* or a usable one over the order books that make a difference to it
NoMarketData == [present |-> FALSE, ticker |-> <<>>, orderbook |-> EmptyBook]
MarketDatas ==
    {NoMarketData}
    \cup {[present |-> TRUE, ticker |-> t, orderbook |-> TightBook] :
              t \in Tickers \ {<<2>>}}
    \cup {[present |-> TRUE, ticker |-> <<2>>, orderbook |-> ob] :
              ob \in {TightBook, WideBook, OneSidedBook, MalformedBook}}

\* how usable a snapshot is: absent, last price None, last price missing
\* or <= 0, or usable
InputKind(md) ==
    IF ~md.present THEN "absent"
    ELSE IF md.ticker = <<>> THEN "no_price"
    ELSE IF md.ticker[1] = NoPrice THEN "none_price"
    ELSE IF md.ticker[1] <= 0 THEN "bad_price"
    ELSE "usable"

Balances == {1000, 1000000}
Hours == {0, 23}

\* ticker.get('last', 0)
TickerLast(ticker) == IF ticker = <<>> THEN 0 ELSE ticker[1]

\* ---------------------------------------------------------- market_data.py
\* bids[0][0] / bids[0][1] raise IndexError on an entry without fields
BookRaises(ob) ==
    /\ ob.bids # <<>>
    /\ ob.asks # <<>>
    /\ (Len(ob.bids[1]) < 2 \/ Len(ob.asks[1]) < 2)

calculate_spread_OverAsk(ob) ==
    IF ob.bids = <<>> \/ ob.asks = <<>> THEN 0
    ELSE IF ob.bids[1][1] > 0
         THEN ((ob.asks[1][1] - ob.bids[1][1]) * 10000) \div ob.asks[1][1]
         ELSE 0

\* calculate_spread, in basis points
calculate_spread(ob) ==
    IF ob.bids = <<>> \/ ob.asks = <<>> THEN 0
    ELSE IF ob.bids[1][1] > 0
         THEN ((ob.asks[1][1] - ob.bids[1][1]) * 10000) \div ob.bids[1][1]
         ELSE 0

\* get_available_liquidity, in tokens
get_available_liquidity(ob) ==
    IF ob.bids = <<>> \/ ob.asks = <<>>
    THEN [bid_volume |-> 0, ask_volume |-> 0]
    ELSE [bid_volume |-> ob.bids[1][2], ask_volume |-> ob.asks[1][2]]

\* ------------------------------------------------------- price_strategy.py
\* round(100 * sin(x / 10)) for x = 1 .. 40
SinTable ==
    <<10, 20, 30, 39, 48, 56, 64, 72, 78, 84, 89, 93, 96, 99, 100, 100, 99,
      97, 95, 91, 86, 81, 75, 68, 60, 52, 43, 33, 24, 14, 4, -6, -16, -26,
      -35, -44, -53, -61, -69, -76>>
Sin100(x) == IF x = 0 THEN 0 ELSE SinTable[x]

NoiseDraws == {-PRICE_RANDOMIZATION_FACTOR, PRICE_RANDOMIZATION_FACTOR}
UnitDraws == {0, 10}            \* np.random.uniform(0, 1), in tenths
PhaseDraws_Wide == {1, 4}
PhaseDraws == {1, 3}            \* np.random.uniform(0.1, 0.3), in tenths
StepDraws == {5, 20}            \* np.random.uniform(0.5, 2.0), in tenths
SignDraws == {-1, 1}            \* np.random.choice([-1, 1])

\* base_step = current_price * BASE_PRICE_STEP_RATIO, in 1/PScale
BaseStep(price) == price * (PScale \div 1000) * BASE_PRICE_STEP_RATIO

Randomization_Tripled(price, u) == (3 * u * BaseStep(price)) \div 10

\* randomization = uniform(-F, F) * base_step
Randomization(price, u) == (u * BaseStep(price)) \div 10

Clip_LowerOnly(x, lo, hi) == Max(x, lo)

\* np.clip(target_price, min_price, max_price)
Clip(x, lo, hi) == Min(Max(x, lo), hi)

ClampTarget(price, dev, target) ==
    Clip(target, price * (PScale - dev), price * (PScale + dev))

\* the targets one call can return, with the phase it leaves behind
TargetOutcomes(price, dir, dev, phase) ==
    IF dir = "up" THEN
        {[target |-> ClampTarget(price, dev,
              price * PScale + ((BaseStep(price) * (10 + v)) \div 10
                                + Randomization(price, u))),
          phase |-> phase] : u \in NoiseDraws, v \in UnitDraws}
    ELSE IF dir = "down" THEN
        {[target |-> ClampTarget(price, dev,
              price * PScale - ((BaseStep(price) * (10 + v)) \div 10
                                + Randomization(price, u))),
          phase |-> phase] : u \in NoiseDraws, v \in UnitDraws}
    ELSE IF dir = "sideways" THEN
        {[target |-> ClampTarget(price, dev,
              price * PScale + ((BaseStep(price) * 2 * Sin100(phase + d)) \div 100
                                + Randomization(price, u))),
          phase |-> phase + d] :
            u \in NoiseDraws, d \in {e \in PhaseDraws : phase + e <= MaxPhase}}
    ELSE
        UNION {{[target |-> ClampTarget(price, dev,
                    price * PScale + ((BaseStep(price) * w * sg) \div 10
                                      + Randomization(price, u))),
                 phase |-> phase] : u \in NoiseDraws, w \in StepDraws} :
               sg \in SignDraws}

Flip(side) == IF side = "buy" THEN "sell" ELSE "buy"

\* determine_order_side for one outcome of its draws: c is the coin of
\* line 61, r1 the draw of line 64, r2 the draw of lines 71/74
DetermineSide(last, price, target, c, r1, r2) ==
    LET side == IF last = None THEN c
                ELSE IF r1 < ORDER_SIDE_ALTERNATE_PROBABILITY
                     THEN Flip(last) ELSE last
    IN IF target > price * PScale /\ side = "sell"
       THEN (IF r2 < PRICE_ADJUSTMENT_PROBABILITY THEN "buy" ELSE side)
       ELSE IF target < price * PScale /\ side = "buy"
       THEN (IF r2 < PRICE_ADJUSTMENT_PROBABILITY THEN "sell" ELSE side)
       ELSE side

SideOutcomes(last, price, target) ==
    {DetermineSide(last, price, target, c, r1, r2) :
        c \in Sides, r1 \in Draws100, r2 \in Draws100}

\* lines 243-244 of main.py: the side chosen and the phase left behind by
\* calculate_next_price_target followed by determine_order_side
SidePhaseOutcomes(cfg, last, phase, price) ==
    UNION {{<<side, tp.phase>> : side \in SideOutcomes(last, price, tp.target)} :
           tp \in TargetOutcomes(price, cfg.price_walk_direction,
                                 cfg.max_price_deviation, phase)}

\* ------------------------------------------------------------ main.py
OrderSize_Uncapped(available_balance, ob, price, cfg, ratio, u) ==
    LET order_size == ((available_balance * ratio * (10 + u)) \div 10)
                          * (SizeScale \div 1000)
    IN IF price > 0
       THEN Max(order_size, (cfg.min_order_value_usdt * 1000 * SizeScale) \div price)
       ELSE Max(order_size, SizeScale)

\* calculate_order_size for one outcome of its draws (ratio in thousandths,
\* u in tenths); the result is in 1/SizeScale tokens
OrderSize(available_balance, ob, price, cfg, ratio, u) ==
    LET order_size == ((available_balance * ratio * (10 + u)) \div 10)
                          * (SizeScale \div 1000)
        liq == get_available_liquidity(ob)
        max_liquidity_size ==
            (Min(liq.bid_volume, liq.ask_volume) * SizeScale * LIQUIDITY_USAGE_RATIO) \div 10
        capped == IF max_liquidity_size > 0
                  THEN Min(order_size, max_liquidity_size) ELSE order_size
    IN IF price > 0
       THEN Max(capped, (cfg.min_order_value_usdt * 1000 * SizeScale) \div price)
       ELSE Max(capped, SizeScale)

SizeOutcomes(available_balance, ob, price, cfg) ==
    {OrderSize(available_balance, ob, price, cfg, ratio, u) :
        ratio \in {cfg.min_order_ratio, cfg.max_order_ratio},
        u \in {-cfg.size_randomization, cfg.size_randomization}}

RandomizedInterval_Both(cfg, u, r1, r2) ==
    LET interval == cfg.order_frequency * (100 + u)
    IN IF r1 < cfg.burst_probability /\ r2 < cfg.quiet_probability
       THEN (interval * BURST_MODE_INTERVAL_MULTIPLIER
                 * QUIET_MODE_INTERVAL_MULTIPLIER) \div 10
       ELSE IF r1 < cfg.burst_probability
       THEN interval * BURST_MODE_INTERVAL_MULTIPLIER
       ELSE IF r2 < cfg.quiet_probability
       THEN interval * QUIET_MODE_INTERVAL_MULTIPLIER
       ELSE interval * 10

\* randomized_interval, in thousandths of a second
\* (order_frequency is in seconds, u in hundredths, the multipliers in tenths)
RandomizedInterval(cfg, u, r1, r2) ==
    LET interval == cfg.order_frequency * (100 + u)
    IN IF r1 < cfg.burst_probability
       THEN interval * BURST_MODE_INTERVAL_MULTIPLIER
       ELSE IF r2 < cfg.quiet_probability
       THEN interval * QUIET_MODE_INTERVAL_MULTIPLIER
       ELSE interval * 10

ShouldPlaceOrder_Strict(lot, t, cfg, u, r1, r2) ==
    IF lot = NoTime THEN TRUE
    ELSE (t - lot) * TickSeconds * 1000 > RandomizedInterval(cfg, u, r1, r2)

\* should_place_order for one outcome of its draws
ShouldPlaceOrder(lot, t, cfg, u, r1, r2) ==
    IF lot = NoTime THEN TRUE
    ELSE (t - lot) * TickSeconds * 1000 >= RandomizedInterval(cfg, u, r1, r2)

DueOutcomes(lot, t, cfg) ==
    {ShouldPlaceOrder(lot, t, cfg, u, r1, r2) :
        u \in {-cfg.timing_randomization, 0, cfg.timing_randomization},
        r1 \in Draws100, r2 \in Draws100}

\* volume_rate_usdt = volume_generated_today_usdt / max(1, hour + 1), in
\* tenths of a USDT per hour
VolumeRate(volume, hour) ==
    (volume \div (ValueScale \div 10)) \div Max(1, hour + 1)

\* volume_rate_usdt < target_volume_usdt_per_hour * 0.8
BehindTarget(volume, hour, cfg) ==
    (volume \div (ValueScale \div 10)) \div Max(1, hour + 1)
        < cfg.target_volume_usdt_per_hour * 8

\* ------------------------------------------------------------ should_trade
Escapes_Everything(exc) == TRUE

\* `except Exception` (line 283): CancelledError is not an Exception
Escapes(exc) == exc = "CancelledError"

PriceValid_NonNegative(price) == price >= 0

\* the negation of `current_price <= 0` (line 240)
PriceValid(price) == price > 0

CountOrder_Skipped(count) == count

\* self.order_count += 1 (line 277)
CountOrder(count) == count + 1

Commits_Always(should_place) == TRUE

\* `if should_place:` (line 275)
Commits(should_place) == should_place

OrderValue_SizeOnly(size, price) == size

\* order_value_usdt = order_size * current_price (lines 267, 278)
OrderValue(size, price) == size * price

\* (value / price) * price in IEEE 754 double arithmetic comes out below
\* value, for a value in USDT and a price in thousandths of the model:
\* 5 / 0.009 is 555.5555555555555 and 555.5555555555555 * 0.009 is
\* 4.999999999999999, while 50 / 0.009 * 0.009 is 50.0 and the quotients
\* by 0.002 and by 0.1 have no rounding error
RoundsBelow(value, price) == value = 5 /\ price = 9

\* size * price < value as the code computes it (main.py:404-405): below
\* in exact arithmetic, or the size is the quotient of value by price and
\* the product rounds below value
ValueBelow(size, price, value) ==
    \/ OrderValue(size, price) < value * ValueScale
    \/ /\ OrderValue(size, price) = value * ValueScale
       /\ RoundsBelow(value, price)

BaseConfidence_Half(spread_ok) == IF spread_ok THEN 5 ELSE 3

\* confidence = 0.7 if spread_ok else 0.3 (line 251), in tenths
BaseConfidence(spread_ok) == IF spread_ok THEN 7 ELSE 3

Accepts_LowThreshold(confidence, spread_ok) == confidence > 2

\* should_place = confidence > 0.5 and spread_ok (line 252)
Accepts(confidence, spread_ok) == confidence > 5 /\ spread_ok

WithBonus_Always(confidence, behind) == confidence + 2

\* if behind_target: confidence += 0.2 (lines 259-260)
WithBonus(confidence, behind) == IF behind THEN confidence + 2 ELSE confidence

CancelsFirst_Always(cfg) == TRUE

\* `if self.cancel_previous_orders:` (line 235)
CancelsFirst(cfg) == cfg.cancel_previous_orders

\* the tuple a call returns; reason tells the return statement taken and
\* steps lists, in order, the steps the call went through
Decision(reason, exc, steps) ==
    [should_place |-> FALSE, confidence |-> 0, reason |-> reason, exc |-> exc,
     steps |-> steps, current_price |-> 0,
     order_side |-> None, order_size |-> 0, order_value_usdt |-> 0,
     spread |-> 0, spread_ok |-> FALSE, volume_rate_usdt |-> 0,
     behind_target |-> FALSE]

\* what the call leaves behind when it returns or raises; before is the
\* tracker its cancel pass started from, or the tracker of the moment when
\* it made none
Leave(ret, raised, oc, before, tracked, lot, volume, count, side, phase, md, b) ==
    /\ open_orders' = tracked
    /\ last_order_time' = lot
    /\ volume_generated_today_usdt' = volume
    /\ order_count' = count
    /\ last_order_side' = side
    /\ price_walk_step' = phase
    /\ call' = [op |-> "should_trade", before |-> before, oc |-> oc,
                raised |-> raised, ret |-> ret,
                req |-> [input |-> InputKind(md), orderbook |-> md.orderbook,
                         available_balance |-> b]]

\* an exception exc raised inside the try after the steps listed
Fail(exc, steps, oc, before, tracked, side, phase, md, b) ==
    Leave(IF Escapes(exc) THEN Decision("raised", exc, steps)
          ELSE Decision("error", exc, steps),
          Escapes(exc), oc, before, tracked,
          last_order_time, volume_generated_today_usdt, order_count,
          side, phase, md, b)

\* lines 238-281, which have no await: the cancel pass, if one was made,
\* started from before, got the answers oc and left the tracker as tracked;
\* the hour of the day is drawn where the code reads it (line 255)
Evaluate(steps, oc, before, tracked, md, b) ==
    LET current_price == TickerLast(md.ticker)
        ob == md.orderbook
    IN
    IF current_price = NoPrice
    THEN Fail("TypeError", steps, oc, before, tracked,
              last_order_side, price_walk_step, md, b)
    ELSE IF ~PriceValid(current_price)
    THEN Leave(Decision("invalid_price", None, steps), FALSE, oc, before,
               tracked, last_order_time, volume_generated_today_usdt,
               order_count, last_order_side, price_walk_step, md, b)
    ELSE
    \E sp \in SidePhaseOutcomes(config, last_order_side, price_walk_step,
                                current_price) :
        LET order_side == sp[1] IN
        IF BookRaises(ob)
        THEN Fail("IndexError", steps \o <<"target", "side", "size">>, oc,
                  before, tracked, order_side, sp[2], md, b)
        ELSE
        \E order_size \in SizeOutcomes(b, ob, current_price, config),
           hour \in Hours :
            LET spread == calculate_spread(ob)
                spread_ok == spread <= config.max_spread_threshold
                base == BaseConfidence(spread_ok)
                should_place == Accepts(base, spread_ok)
                behind == BehindTarget(volume_generated_today_usdt, hour, config)
                confidence == WithBonus(base, behind)
                value == OrderValue(order_size, current_price)
                ret == [should_place |-> should_place,
                        confidence |-> confidence,
                        reason |-> "decision", exc |-> None,
                        steps |-> steps \o <<"target", "side", "size", "spread">>,
                        current_price |-> current_price,
                        order_side |-> order_side,
                        order_size |-> order_size,
                        order_value_usdt |-> value,
                        spread |-> spread, spread_ok |-> spread_ok,
                        volume_rate_usdt |->
                            VolumeRate(volume_generated_today_usdt, hour),
                        behind_target |-> behind]
            IN Leave(ret, FALSE, oc, before, tracked,
                     IF Commits(should_place) THEN now ELSE last_order_time,
                     IF Commits(should_place)
                     THEN volume_generated_today_usdt + value
                     ELSE volume_generated_today_usdt,
                     IF Commits(should_place) THEN CountOrder(order_count)
                     ELSE order_count,
                     order_side, sp[2], md, b)

\* the call has suspended inside its cancel pass
Suspends == UNCHANGED <<open_orders, stratVars>> /\ call' = NoCall

ShouldTrade_CancelBeforeTiming(md, b) ==
    IF ~md.present
    THEN /\ Leave(Decision("no_data", None, <<>>), FALSE, <<>>, open_orders,
                  open_orders, last_order_time, volume_generated_today_usdt,
                  order_count, last_order_side, price_walk_step, md, b)
         /\ UNCHANGED passes
    ELSE
    \E due \in DueOutcomes(last_order_time, now, config) :
        IF ~due
        THEN /\ Leave(Decision("waiting", None,
                               IF CancelsFirst(config)
                               THEN <<"cancel", "timing">> ELSE <<"timing">>),
                      FALSE, <<>>, open_orders,
                      IF CancelsFirst(config) THEN <<>> ELSE open_orders,
                      last_order_time, volume_generated_today_usdt,
                      order_count, last_order_side, price_walk_step, md, b)
             /\ UNCHANGED passes
        ELSE IF CancelsFirst(config) /\ open_orders # <<>>
        THEN StartPass("a", "cancel", "should_trade") /\ Suspends
        ELSE /\ Evaluate(IF CancelsFirst(config) THEN <<"cancel", "timing">>
                         ELSE <<"timing">>,
                         <<>>, open_orders, open_orders, md, b)
             /\ UNCHANGED passes

\* VolumeGenerationStrategy.should_trade(market_data, available_balance),
\* from its call to its return or, with orders to cancel, to the first
\* exchange call of its cancel pass (lines 225-236, order_manager.py:58-70)
ShouldTrade(md, b) ==
    IF ~md.present
    THEN /\ Leave(Decision("no_data", None, <<>>), FALSE, <<>>, open_orders,
                  open_orders, last_order_time, volume_generated_today_usdt,
                  order_count, last_order_side, price_walk_step, md, b)
         /\ UNCHANGED passes
    ELSE
    \E due \in DueOutcomes(last_order_time, now, config) :
        IF ~due
        THEN /\ Leave(Decision("waiting", None, <<"timing">>), FALSE, <<>>,
                      open_orders, open_orders,
                      last_order_time, volume_generated_today_usdt,
                      order_count, last_order_side, price_walk_step, md, b)
             /\ UNCHANGED passes
        ELSE IF CancelsFirst(config) /\ open_orders # <<>>
        THEN StartPass("a", "cancel", "should_trade") /\ Suspends
        ELSE /\ Evaluate(IF CancelsFirst(config) THEN <<"timing", "cancel">>
                         ELSE <<"timing">>,
                         <<>>, open_orders, open_orders, md, b)
             /\ UNCHANGED passes

\* the cancel pass of should_trade is suspended on an exchange call
CancelPending ==
    PassAsking("a") /\ passes["a"].owner = "should_trade"

\* the cancel pass of should_trade has made its last exchange call
CancelReturning ==
    PassAnswered("a") /\ passes["a"].owner = "should_trade"

\* the cancel pass returns (order_manager.py:81-89) and the call goes on to
\* its own return (lines 238-285)
ShouldTradeReturn(md, b) ==
    /\ Evaluate(<<"timing", "cancel">>, passes["a"].oc, passes["a"].start,
                Removal("a"), md, b)
    /\ DropPass("a")

\* CancelledError is delivered at the exchange call the cancel pass is
\* suspended on, with the request possibly carried out: it passes the
\* `except Exception` handlers of lines 74 and 283 and leaves should_trade
ShouldTradeRaise(md, b) ==
    /\ Fail("CancelledError", <<"timing", "cancel">>,
            Append(passes["a"].oc, Interrupted), passes["a"].start,
            open_orders, last_order_side, price_walk_step, md, b)
    /\ exch' \in InFlight("a")
    /\ DropPass("a")

\* ------------------------------------------------- run loop (main.py)
MAX_BALANCE_USAGE_RATIO == 1            \* 0.1, in tenths
ORDER_CLEANUP_INTERVAL == 300           \* seconds

\* the caller has read the result of the last call
Return ==
    /\ call # NoCall
    /\ call' = NoCall
    /\ UNCHANGED <<open_orders, exch, nextId, returned, now, config, heap, passes, stratVars,
                   botVars>>

\* side, size and price of the order the loop is about to execute
NoOrder == [side |-> None, size |-> 0, price |-> 0]

\* balance.get(asset, {}).get('free', 0.0): NoBalance is a 'free' of None
NoBalance == -1
RunBalances == {NoBalance, 0, 10000, 100000}

\* duration_hours (NoTime: None)
Durations == {NoTime, 0, 1}

\* the durations a run with configuration cfg is started with: a duration
\* of 0 is tried in dry-run mode
RunDurations(cfg) == IF cfg.dry_run THEN Durations ELSE Durations \ {0}

\* the configurations the loop runs with: a walk that keeps no phase, with
\* and without the cancel pass, live and dry-run, one with order ratios of
\* 0.1..0.5 and no size randomization, and one given to the bot with a
\* min_order_value_usdt of 5 while the environment sets MIN_ORDER_VALUE_USDT
\* to 50
RunConfigs ==
    {[BaseConfig EXCEPT !.price_walk_direction = "up",
                        !.cancel_previous_orders = c, !.dry_run = d] :
        c \in BOOLEAN, d \in BOOLEAN}
    \cup {[BaseConfig EXCEPT !.price_walk_direction = "up",
                             !.min_order_ratio = 100, !.max_order_ratio = 500,
                             !.size_randomization = 0]}
    \cup {[BaseConfig EXCEPT !.price_walk_direction = "up",
                             !.MIN_ORDER_VALUE_USDT = 50]}

\* the awaits of the loop body that lie inside its try block, outside the
\* calls modelled with their own interruption
TryAwaits ==
    {"get_market_data", "sleep_no_data", "get_balance", "sleep_no_balance",
     "sleep_balance_low", "sleep_logic_error", "sleep_check"}

\* asyncio.sleep(ERROR_RETRY_WAIT) of line 442, inside the except handler
HandlerAwaits == {"sleep_error_retry"}

\* the snapshots the provider hands to the loop
RunMarketDatas ==
    {NoMarketData}
    \cup {[present |-> TRUE, ticker |-> <<0>>, orderbook |-> TightBook]}
    \cup {[present |-> TRUE, ticker |-> <<2>>, orderbook |-> ob] :
              ob \in {TightBook, WideBook}}
    \cup {[present |-> TRUE, ticker |-> <<9>>, orderbook |-> TightBook]}

\* a step of the loop that calls neither the tracker nor the strategy
RunFrame == <<open_orders, exch, nextId, returned, now, config, heap, passes, stratVars>>
LoopStep == call' = NoCall /\ UNCHANGED RunFrame

\* the locals of an iteration are dead once the iteration is left
DropLocals == market_data' = NoMarketData /\ balance' = 0 /\ order' = NoOrder

\* main, lines 512-521: initialize_exchange, then lines 355-364 of
\* run_volume_generation
initialize_exchange ==
    /\ pc = "initialize_exchange"
    /\ \E ok \in BOOLEAN, hours \in RunDurations(config) :
        IF ok
        THEN /\ pc' = "while"
             /\ running' = TRUE
             /\ duration_hours' = hours
             /\ end_time' = IF hours # NoTime /\ hours # 0
                            THEN now + hours * (3600 \div TickSeconds)
                            ELSE NoTime
             /\ last_cleanup' = now
        ELSE /\ pc' = "close"
             /\ UNCHANGED <<running, end_time, duration_hours, last_cleanup>>
    /\ UNCHANGED <<total_orders, cleanup_due, market_data, balance, order,
                   final_cancel>>
    /\ LoopStep

\* (datetime.now() - last_cleanup).total_seconds() > ORDER_CLEANUP_INTERVAL
CleanupOverdue == (now - last_cleanup) * TickSeconds > ORDER_CLEANUP_INTERVAL

\* while self.running and (end_time is None or datetime.now() < end_time)
LoopTest ==
    /\ pc = "while"
    /\ pc' = IF running /\ (end_time = NoTime \/ now < end_time)
             THEN "get_market_data" ELSE "final"
    /\ cleanup_due' = (/\ running /\ (end_time = NoTime \/ now < end_time)
                       /\ CleanupOverdue)
    /\ UNCHANGED <<running, total_orders, last_cleanup, end_time, duration_hours, market_data,
                   balance, order, final_cancel>>
    /\ LoopStep

\* lines 369-372; the provider answers None when a fetch fails
get_market_data ==
    /\ pc = "get_market_data"
    /\ \E md \in RunMarketDatas :
        /\ market_data' = md
        /\ pc' = IF md.present THEN "get_balance" ELSE "sleep_no_data"
    /\ UNCHANGED <<running, total_orders, last_cleanup, cleanup_due, end_time, duration_hours, balance,
                   order, final_cancel>>
    /\ LoopStep

ExceptionHandler_Break == "final"

\* `except Exception` of lines 440-442: log, then asyncio.sleep(ERROR_RETRY_WAIT)
ExceptionHandler == "sleep_error_retry"

\* lines 375-379; `balance <= 0` raises TypeError on None, which the
\* `except Exception` of line 440 handles
get_balance ==
    /\ pc = "get_balance"
    /\ \E b \in RunBalances :
        IF b = NoBalance
        THEN /\ pc' = ExceptionHandler
             /\ balance' = NoBalance
             /\ market_data' = NoMarketData
             /\ order' = NoOrder
        ELSE IF b <= 0
        THEN pc' = "sleep_no_balance" /\ DropLocals
        ELSE /\ pc' = "should_trade"
             /\ balance' = b
             /\ UNCHANGED <<market_data, order>>
    /\ UNCHANGED <<running, total_orders, last_cleanup, cleanup_due, end_time, duration_hours, final_cancel>>
    /\ LoopStep

\* lines 382-412: the decision, then the balance limit and the floor
\* max_balance_size = balance * MAX_BALANCE_USAGE_RATIO (line 394)
MaxBalanceSize(available_balance) ==
    available_balance * MAX_BALANCE_USAGE_RATIO * (SizeScale \div 10)

FinalSize_Uncapped(requested_size, min_viable_size, max_balance_size) ==
    Max(requested_size, min_viable_size)

\* size = min(max(requested_size, min_viable_size), max_balance_size)
FinalSize(requested_size, min_viable_size, max_balance_size) ==
    Min(Max(requested_size, min_viable_size), max_balance_size)

\* lines 393-409: the outcome of the sizing of a decision to place, and the
\* order that goes to execute_order
Sizing(ret, available_balance, cfg) ==
    LET price == ret.current_price
        max_balance_size == MaxBalanceSize(available_balance)
        min_value == cfg.MIN_ORDER_VALUE_USDT * 1000 * SizeScale
        min_viable_size == min_value \div price
        size == FinalSize(ret.order_size, min_viable_size, max_balance_size)
    IN IF max_balance_size < min_viable_size
       THEN [at |-> "sleep_balance_low", order |-> NoOrder]
       ELSE IF ValueBelow(size, price, cfg.MIN_ORDER_VALUE_USDT)
       THEN [at |-> "sleep_logic_error", order |-> NoOrder]
       ELSE [at |-> "execute_order",
             order |-> [side |-> ret.order_side, size |-> size,
                        price |-> price]]

\* return {'error': 'Strategy not initialized'} (line 347)
NotInitialized ==
    [op |-> "execute_order", before |-> open_orders, oc |-> <<>>,
     raised |-> FALSE, ret |-> ErrorRecord, req |-> None]

\* StandaloneVolumeBot.execute_order (lines 344-351); strategy tells whether
\* self.strategy is set: without it the call returns an error record,
\* with it the call is place_order with dry_run = VolumeConfig.DRY_RUN
ExecuteOrder(strategy, side, amount, price) ==
    IF ~strategy
    THEN /\ call' = NotInitialized
         /\ UNCHANGED <<open_orders, exch, nextId, returned>>
    ELSE IF config.dry_run
    THEN PlaceDryRun(side, amount, price)
    ELSE \E outcome \in CreateOutcomes, created \in BOOLEAN :
            /\ outcome # "interrupt" => created = (outcome = "id")
            /\ PlaceLive(side, amount, price, outcome, created)

\* execute_order called on a bot by a caller other than its run loop,
\* before or after initialize_exchange has set self.strategy
BotExecuteOrder ==
    /\ \E strategy \in BOOLEAN, side \in Sides, amount \in Amounts,
          price \in Prices :
           ExecuteOrder(strategy, side, amount, price)
    /\ UNCHANGED <<now, config, passes, stratVars, botVars>>
    /\ StoreSelf

\* the locals of the caller other than the arguments of should_trade
callerVars == <<pc, running, total_orders, last_cleanup, cleanup_due, end_time,
                duration_hours, order, final_cancel>>

\* should_trade is called with a snapshot and a balance; while it is
\* suspended in its cancel pass the caller keeps both
ShouldTradeOver(mds, bals) ==
    /\ call = NoCall
    /\ ~InPass("a")
    /\ order_count < MaxOrders
    /\ \E md \in mds, b \in bals :
        /\ ShouldTrade(md, b)
        /\ IF passes'["a"].kind # "idle"
           THEN market_data' = md /\ balance' = b
           ELSE UNCHANGED <<market_data, balance>>
    /\ UNCHANGED <<exch, nextId, returned, now, config, callerVars>>
    /\ StoreSelf

should_trade == ShouldTradeOver(MarketDatas, Balances)

\* should_trade on a usable snapshot with a tight book and one balance
InstanceShouldTrade ==
    ShouldTradeOver({[present |-> TRUE, ticker |-> <<2>>,
                      orderbook |-> TightBook]}, {1000})

\* should_trade returns after its cancel pass
should_trade_return ==
    /\ CancelReturning
    /\ ShouldTradeReturn(market_data, balance)
    /\ market_data' = NoMarketData
    /\ balance' = 0
    /\ UNCHANGED <<exch, nextId, returned, now, config, callerVars>>
    /\ StoreSelf

\* should_trade is left by CancelledError inside its cancel pass
should_trade_raise ==
    /\ CancelPending
    /\ ShouldTradeRaise(market_data, balance)
    /\ market_data' = NoMarketData
    /\ balance' = 0
    /\ UNCHANGED <<nextId, returned, now, config, callerVars>>
    /\ StoreSelf

\* the caller after a decision to place (lines 384-416): the sizing, and
\* execute_order when the sizing allows an order
execute_order ==
    /\ call.op = "should_trade"
    /\ ~call.raised
    /\ call.ret.should_place
    /\ LET s == Sizing(call.ret, call.req.available_balance, config)
       IN /\ s.at = "execute_order"
          /\ ExecuteOrder(TRUE, s.order.side, s.order.size, s.order.price)
    /\ UNCHANGED <<now, config, passes, stratVars, botVars>>
    /\ StoreSelf

\* lines 384-412, once should_trade has returned or raised: the loop goes
\* on to the sizing, to the cleanup check or out of the loop
AfterShouldTrade ==
    /\ IF call'.raised
       THEN pc' = "final" /\ order' = NoOrder
       ELSE IF ~call'.ret.should_place
       THEN pc' = "cleanup_check" /\ order' = NoOrder
       ELSE LET s == Sizing(call'.ret, balance, config)
            IN pc' = s.at /\ order' = s.order
    /\ market_data' = NoMarketData
    /\ balance' = 0

\* line 382: should_trade is called
RunShouldTrade ==
    /\ pc = "should_trade"
    /\ order_count < MaxOrders
    /\ ShouldTrade(market_data, balance)
    /\ IF passes'["a"].kind # "idle"
       THEN pc' = "should_trade_cancel" /\ UNCHANGED <<market_data, balance, order>>
       ELSE AfterShouldTrade
    /\ UNCHANGED <<exch, nextId, returned, now, config, running, total_orders,
                   last_cleanup, cleanup_due, end_time, duration_hours, final_cancel>>
    /\ StoreSelf

\* line 382: should_trade returns after its cancel pass
RunShouldTradeReturn ==
    /\ pc = "should_trade_cancel"
    /\ CancelReturning
    /\ ShouldTradeReturn(market_data, balance)
    /\ AfterShouldTrade
    /\ UNCHANGED <<exch, nextId, returned, now, config, running, total_orders,
                   last_cleanup, cleanup_due, end_time, duration_hours, final_cancel>>
    /\ StoreSelf

\* line 382: CancelledError leaves should_trade and is handled at line 437
RunShouldTradeRaise ==
    /\ pc = "should_trade_cancel"
    /\ CancelPending
    /\ ShouldTradeRaise(market_data, balance)
    /\ AfterShouldTrade
    /\ UNCHANGED <<nextId, returned, now, config, running, total_orders,
                   last_cleanup, cleanup_due, end_time, duration_hours, final_cancel>>
    /\ StoreSelf

\* lines 415-423: execute_order, then the statistics
RunExecuteOrder ==
    /\ pc = "execute_order"
    /\ ExecuteOrder(TRUE, order.side, order.size, order.price)
    /\ pc' = IF call'.raised THEN "final" ELSE "cleanup_check"
    /\ total_orders' = IF call'.raised THEN total_orders
                       ELSE IF call'.ret.error THEN total_orders
                       ELSE total_orders + 1
    /\ order' = NoOrder
    /\ UNCHANGED <<now, config, passes, stratVars, running, last_cleanup, cleanup_due, end_time, duration_hours,
                   market_data, balance, final_cancel>>
    /\ StoreSelf

\* line 426
CleanupCheck ==
    /\ pc = "cleanup_check"
    /\ pc' = IF CleanupOverdue THEN "cleanup" ELSE "sleep_check"
    /\ UNCHANGED <<running, total_orders, last_cleanup, cleanup_due, end_time, duration_hours, market_data,
                   balance, order, final_cancel>>
    /\ LoopStep

\* lines 427-429: cleanup_completed_orders is called; on an empty tracker
\* it returns at once
RunCleanup ==
    /\ pc = "cleanup"
    /\ IF open_orders = <<>>
       THEN /\ call' = [op |-> "cleanup_completed_orders", before |-> <<>>,
                        oc |-> <<>>, raised |-> FALSE, ret |-> 0,
                        req |-> None]
            /\ pc' = "sleep_check"
            /\ last_cleanup' = now
            /\ cleanup_due' = FALSE
            /\ UNCHANGED passes
       ELSE /\ StartPass("a", "cleanup", "caller")
            /\ call' = NoCall
            /\ pc' = "cleanup_pass"
            /\ UNCHANGED <<last_cleanup, cleanup_due>>
    /\ UNCHANGED <<open_orders, exch, nextId, returned, now, config, heap,
                   stratVars, running, total_orders, end_time, duration_hours,
                   market_data, balance, order, final_cancel>>

\* lines 428-429: the pass returns and the loop notes the time
RunCleanupReturn ==
    /\ pc = "cleanup_pass"
    /\ PassAnswered("a")
    /\ open_orders' = Removal("a")
    /\ call' = PassReturned("a")
    /\ DropPass("a")
    /\ pc' = "sleep_check"
    /\ last_cleanup' = now
    /\ cleanup_due' = FALSE
    /\ UNCHANGED <<exch, nextId, returned, now, config, stratVars, running,
                   total_orders, end_time, duration_hours, market_data, balance,
                   order, final_cancel>>
    /\ StoreSelf

\* line 428: CancelledError leaves the pass and is handled at line 437
RunCleanupRaise ==
    /\ pc = "cleanup_pass"
    /\ PassAsking("a")
    /\ call' = PassRaised("a")
    /\ exch' \in InFlight("a")
    /\ DropPass("a")
    /\ pc' = "final"
    /\ UNCHANGED <<open_orders, nextId, returned, now, config, heap,
                   stratVars, running, total_orders, last_cleanup, cleanup_due,
                   end_time, duration_hours, market_data, balance, order,
                   final_cancel>>

\* an asyncio.sleep of the loop returns: continue, or the end of the body
Sleep ==
    /\ pc \in {"sleep_no_data", "sleep_no_balance", "sleep_balance_low",
               "sleep_logic_error", "sleep_check", "sleep_error_retry"}
    /\ pc' = "while"
    /\ cleanup_due' = FALSE
    /\ balance' = 0
    /\ UNCHANGED <<running, total_orders, last_cleanup, end_time,
                   duration_hours, market_data, order, final_cancel>>
    /\ LoopStep

\* KeyboardInterrupt or CancelledError delivered at an await: inside the try
\* the handlers of lines 434-439 break out of the loop; at the sleep of
\* line 442 no handler of run_volume_generation is in scope and the exception
\* reaches main (lines 523-531)
Interrupt ==
    /\ pc \in TryAwaits \cup HandlerAwaits \cup {"initialize_exchange"}
    /\ pc' = IF pc \in TryAwaits THEN "final" ELSE "close"
    /\ DropLocals
    /\ UNCHANGED <<running, total_orders, last_cleanup, cleanup_due, end_time, duration_hours, final_cancel>>
    /\ LoopStep

\* the awaits of run_volume_generation: the points where the loop is
\* suspended and another task runs
LoopAwaits ==
    TryAwaits \cup HandlerAwaits
    \cup {"should_trade_cancel", "execute_order", "cleanup_pass",
          "final_cancel_pass"}

\* somebody clears bot.running while the loop is suspended at an await; the
\* loop test of line 366 is the one place that reads the flag
Stop ==
    /\ running
    /\ pc \in LoopAwaits
    /\ running' = FALSE
    /\ UNCHANGED <<pc, total_orders, last_cleanup, cleanup_due, end_time, duration_hours, market_data,
                   balance, order, final_cancel>>
    /\ LoopStep

\* lines 444-447
FinalCleanup ==
    /\ pc = "final"
    /\ running' = FALSE
    /\ IF Len(open_orders) > 0
       THEN pc' = "final_cancel" /\ final_cancel' = TRUE
       ELSE pc' = "close" /\ UNCHANGED final_cancel
    /\ UNCHANGED <<total_orders, last_cleanup, cleanup_due, end_time, duration_hours, market_data, balance,
                   order>>
    /\ LoopStep

\* line 449: cancel_open_orders is called on the non-empty tracker
FinalCancel ==
    /\ pc = "final_cancel"
    /\ StartPass("a", "cancel", "caller")
    /\ call' = NoCall
    /\ pc' = "final_cancel_pass"
    /\ UNCHANGED <<open_orders, exch, nextId, returned, now, config, heap,
                   stratVars, running, total_orders, last_cleanup, cleanup_due,
                   end_time, duration_hours, market_data, balance, order,
                   final_cancel>>

\* lines 449-454: the pass returns and run_volume_generation ends
FinalCancelReturn ==
    /\ pc = "final_cancel_pass"
    /\ PassAnswered("a")
    /\ open_orders' = Removal("a")
    /\ call' = PassReturned("a")
    /\ DropPass("a")
    /\ pc' = "close"
    /\ UNCHANGED <<exch, nextId, returned, now, config, stratVars, running,
                   total_orders, last_cleanup, cleanup_due, end_time,
                   duration_hours, market_data, balance, order, final_cancel>>
    /\ StoreSelf

\* line 449: an interruption inside the pass reaches main (lines 523-531)
FinalCancelRaise ==
    /\ pc = "final_cancel_pass"
    /\ PassAsking("a")
    /\ call' = PassRaised("a")
    /\ exch' \in InFlight("a")
    /\ DropPass("a")
    /\ pc' = "close"
    /\ UNCHANGED <<open_orders, nextId, returned, now, config, heap,
                   stratVars, running, total_orders, last_cleanup, cleanup_due,
                   end_time, duration_hours, market_data, balance, order,
                   final_cancel>>

\* main, lines 529-531: bot.close()
close ==
    /\ pc = "close"
    /\ pc' = "closed"
    /\ UNCHANGED <<running, total_orders, last_cleanup, cleanup_due, end_time, duration_hours, market_data,
                   balance, order, final_cancel>>
    /\ LoopStep

\* ------------------------------------------ the pure functions, on their own
\* max_price_deviation, in 1/PScale: 0.001, 0.01 and 0.1
Deviations == {100, 1000, 10000}

\* the configurations the functions are applied under: every walk direction
\* and deviation; other order ratios and floors; a scheduler without
\* randomization and regimes, for two base intervals; and one whose
\* longest interval, 800 * 1.5 * 3.0 seconds, is one hour
FnConfigs ==
    {[BaseConfig EXCEPT !.price_walk_direction = d,
                        !.max_price_deviation = dev] :
        d \in PRICE_WALK_DIRECTIONS, dev \in Deviations}
    \cup {[BaseConfig EXCEPT !.min_order_ratio = 10, !.max_order_ratio = 50]}
    \cup {[BaseConfig EXCEPT !.timing_randomization = 0,
                             !.burst_probability = 0,
                             !.quiet_probability = 0,
                             !.order_frequency = f] : f \in {3600, 7200}}
    \cup {[BaseConfig EXCEPT !.order_frequency = 800]}

\* current_price, in price units
FnPrices == {2, 9, 100}

\* available_balance, in tokens
FnBalances == {10, 1000}

\* order books of [price, volume] entries: the books of the decision engine,
\* a crossed one, one without bids, and one with little volume at the top
CrossedBook == Book(<<<<101, 10000>>>>, <<<<100, 12000>>>>)
NoBidsBook == Book(<<>>, <<<<101, 12000>>>>)
ThinBook == Book(<<<<100, 110>>>>, <<<<101, 120>>>>)
FnBooks ==
    {b \in Books : ~BookRaises(b)} \cup {CrossedBook, NoBidsBook, ThinBook}

FnFrame == <<open_orders, exch, nextId, returned, now, config, passes, botVars>>

\* PriceStrategy.calculate_next_price_target(current_price)
calculate_next_price_target ==
    /\ call = NoCall
    /\ \E price \in FnPrices :
       \E tp \in TargetOutcomes(price, config.price_walk_direction,
                                config.max_price_deviation, price_walk_step) :
           /\ price_walk_step' = tp.phase
           /\ call' = [op |-> "calculate_next_price_target", before |-> <<>>,
                       oc |-> <<>>, raised |-> FALSE, ret |-> tp.target,
                       req |-> [current_price |-> price]]
    /\ UNCHANGED <<last_order_time, volume_generated_today_usdt, order_count,
                   last_order_side>>
    /\ UNCHANGED FnFrame
    /\ StoreSelf

\* VolumeGenerationStrategy.calculate_order_size(available_balance,
\* market_data, current_price), on the order books it does not raise on
calculate_order_size ==
    /\ call = NoCall
    /\ \E available_balance \in FnBalances, price \in FnPrices,
          ob \in FnBooks :
       \E order_size \in SizeOutcomes(available_balance, ob, price, config) :
           call' = [op |-> "calculate_order_size", before |-> <<>>,
                    oc |-> <<>>, raised |-> FALSE, ret |-> order_size,
                    req |-> [available_balance |-> available_balance,
                             orderbook |-> ob, current_price |-> price]]
    /\ UNCHANGED stratVars
    /\ UNCHANGED <<FnFrame, heap>>

\* MarketDataProvider.calculate_spread(orderbook)
CalculateSpread ==
    /\ call = NoCall
    /\ \E ob \in FnBooks :
           call' = [op |-> "calculate_spread", before |-> <<>>, oc |-> <<>>,
                    raised |-> FALSE, ret |-> calculate_spread(ob),
                    req |-> [orderbook |-> ob]]
    /\ UNCHANGED stratVars
    /\ UNCHANGED <<FnFrame, heap>>

\* VolumeGenerationStrategy.should_place_order(); the interval is NoCount
\* when the call returns before computing one
should_place_order ==
    /\ call = NoCall
    /\ \E u \in {-config.timing_randomization, 0, config.timing_randomization},
          r1 \in Draws100, r2 \in Draws100 :
           call' = [op |-> "should_place_order", before |-> <<>>, oc |-> <<>>,
                    raised |-> FALSE,
                    ret |-> [due |-> ShouldPlaceOrder(last_order_time, now,
                                                      config, u, r1, r2),
                             interval |-> IF last_order_time = NoTime
                                          THEN NoCount
                                          ELSE RandomizedInterval(config, u,
                                                                  r1, r2)],
                    req |-> [u |-> u, r1 |-> r1, r2 |-> r2]]
    /\ UNCHANGED stratVars
    /\ UNCHANGED <<FnFrame, heap>>

\* ------------------------------------------------- config_validator.py
\* float('nan'), which float(os.getenv(...)) yields for the text "nan"
NaN == -1000000

\* Python's a < b and a <= b on floats: false as soon as one side is NaN
Lt(a, b) == a # NaN /\ b # NaN /\ a < b
Le(a, b) == a # NaN /\ b # NaN /\ a <= b

\* the configuration handed to the validator, in the units of BaseConfig
\* except order_frequency, which is in half seconds
RawBase ==
    [target_volume_usdt_per_hour |-> 10,
     price_walk_direction |-> "sideways",
     max_price_deviation |-> 1000,
     order_frequency |-> 120,
     min_order_ratio |-> 1,
     max_order_ratio |-> 5,
     size_randomization |-> 3,
     timing_randomization |-> 50,
     burst_probability |-> 5,
     quiet_probability |-> 15,
     min_order_value_usdt |-> 5,
     max_spread_threshold |-> 500,
     cancel_previous_orders |-> TRUE]

\* configurations around every limit the validator tests
RawConfigs ==
    {[RawBase EXCEPT !.target_volume_usdt_per_hour = t,
                     !.price_walk_direction = d,
                     !.max_price_deviation = v,
                     !.order_frequency = f] :
        t \in {NaN, 0, 10}, d \in {"up", "sideways", "diagonal"},
        v \in {NaN, 0, 1000, 10000, 10100}, f \in {1, 2, 3, 120}}
    \cup {[RawBase EXCEPT !.min_order_ratio = a,
                          !.max_order_ratio = b,
                          !.size_randomization = r,
                          !.timing_randomization = u] :
        a \in {NaN, 0, 1, 5, 1000, 1001}, b \in {NaN, 0, 1, 5, 1000, 1001},
        r \in {NaN, -1, 0, 10, 11}, u \in {-1, 50, 101}}
    \cup {[RawBase EXCEPT !.burst_probability = b,
                          !.quiet_probability = q,
                          !.min_order_value_usdt = m,
                          !.max_spread_threshold = x,
                          !.cancel_previous_orders = c] :
        b \in {-1, 0, 100, 101}, q \in {-1, 15, 101}, m \in {NaN, 0, 5},
        x \in {NaN, 0, 500, 10000, 10001}, c \in BOOLEAN}

\* no check of lines 47-116 raises
ValidationPasses(raw) ==
    /\ ~Le(raw.target_volume_usdt_per_hour, 0)
    /\ raw.price_walk_direction \in PRICE_WALK_DIRECTIONS
    /\ Lt(0, raw.max_price_deviation) /\ Le(raw.max_price_deviation, PScale \div 10)
    /\ ~Lt(raw.order_frequency, 2)
    /\ Lt(0, raw.min_order_ratio) /\ Le(raw.min_order_ratio, 1000)
    /\ Lt(0, raw.max_order_ratio) /\ Le(raw.max_order_ratio, 1000)
    /\ ~Le(raw.max_order_ratio, raw.min_order_ratio)
    /\ Le(0, raw.size_randomization) /\ Le(raw.size_randomization, 10)
    /\ Le(0, raw.timing_randomization) /\ Le(raw.timing_randomization, 100)
    /\ Le(0, raw.burst_probability) /\ Le(raw.burst_probability, 100)
    /\ Le(0, raw.quiet_probability) /\ Le(raw.quiet_probability, 100)
    /\ ~Le(raw.min_order_value_usdt, 0)
    /\ Lt(0, raw.max_spread_threshold) /\ Le(raw.max_spread_threshold, 10000)

\* the dictionary of line 122: float(x) keeps every value, int(frequency)
\* drops the half second
Validated(raw) == [raw EXCEPT !.order_frequency = raw.order_frequency \div 2]

\* ConfigValidator.validate_strategy_config(config)
validate_strategy_config ==
    /\ call = NoCall
    /\ \E raw \in RawConfigs :
           call' = [op |-> "validate_strategy_config", before |-> <<>>,
                    oc |-> <<>>, raised |-> ~ValidationPasses(raw),
                    ret |-> IF ValidationPasses(raw) THEN Validated(raw)
                            ELSE ErrorRecord,
                    req |-> raw]
    /\ UNCHANGED <<open_orders, exch, nextId, returned, now, config, heap, passes,
                   stratVars, botVars>>

\* the caller turns to the instance it has not used yet: self is now the
\* second instance, and the attributes it works on are those reached
\* through the references of that instance
Switch ==
    /\ call = NoCall
    /\ ~InPass("a")
    /\ heap.self = 1
    /\ heap' = [heap EXCEPT !.self = 2]
    /\ LET mine == Attributes(heap, 2)
       IN /\ open_orders' = mine.open_orders
          /\ last_order_time' = mine.strategy.last_order_time
          /\ volume_generated_today_usdt' =
                 mine.strategy.volume_generated_today_usdt
          /\ order_count' = mine.strategy.order_count
          /\ last_order_side' = mine.price_strategy.last_order_side
          /\ price_walk_step' = mine.price_strategy.price_walk_step
    /\ UNCHANGED <<exch, nextId, returned, now, call, config, passes, botVars>>

\* ---------------------------------------------------------- specification
\* StandaloneVolumeBot.__init__; pc = "idle": no run loop is running
BotInit ==
    /\ running = FALSE
    /\ total_orders = 0
    /\ last_cleanup = 0
    /\ cleanup_due = FALSE
    /\ end_time = NoTime
    /\ duration_hours = NoTime
    /\ market_data = NoMarketData
    /\ balance = 0
    /\ order = NoOrder
    /\ final_cancel = FALSE

BotIdle == pc = "idle" /\ BotInit

\* VolumeGenerationStrategy.__init__ and PriceStrategy.__init__
StrategyInit ==
    /\ last_order_time = NoTime
    /\ volume_generated_today_usdt = 0
    /\ order_count = 0
    /\ last_order_side = None
    /\ price_walk_step = 0

\* OrderManager.__init__: nothing is tracked
Init ==
    /\ open_orders = <<>>
    /\ exch = [i \in Ids |-> "none"]
    /\ nextId = 1
    /\ returned = {}
    /\ now = 0
    /\ call = NoCall
    /\ config = BaseConfig
    /\ heap = NewHeap
    /\ passes = NoPasses
    /\ StrategyInit
    /\ BotIdle

\* one caller of the tracker (the single flow of control of a trading pair):
\* its passes suspend at their exchange calls, where the exchange and the
\* clock move on
Next ==
    \/ ~InPass("a") /\ place_order
    \/ cancel_open_orders
    \/ cleanup_completed_orders
    \/ StepPass("a")
    \/ InterruptPass("a")
    \/ EndPass("a")
    \/ ExchangeResolve
    \/ ExchangePurge
    \/ Tick

Spec == Init /\ [][Next]_vars

\* the decision engine called with any snapshot, between placements, fills
\* and clock ticks, which also happen while its cancel pass is suspended;
\* under every walk direction and both cancel settings
InitStrategy ==
    /\ open_orders = <<>>
    /\ exch = [i \in Ids |-> "none"]
    /\ nextId = 1
    /\ returned = {}
    /\ now = 0
    /\ call = NoCall
    /\ config \in Configs
    /\ heap = NewHeap
    /\ passes = NoPasses
    /\ StrategyInit
    /\ BotIdle

NextStrategy ==
    \/ should_trade
    \/ StepPass("a")
    \/ should_trade_return
    \/ should_trade_raise
    \/ execute_order
    \/ Return
    \/ ExchangeFill
    \/ Tick

SpecStrategy == InitStrategy /\ [][NextStrategy]_vars

\* main(): the bot from its construction to the end of bot.close()
InitRun ==
    /\ open_orders = <<>>
    /\ exch = [i \in Ids |-> "none"]
    /\ nextId = 1
    /\ returned = {}
    /\ now = 0
    /\ call = NoCall
    /\ config \in RunConfigs
    /\ heap = NewHeap
    /\ passes = NoPasses
    /\ StrategyInit
    /\ pc = "initialize_exchange"
    /\ BotInit

NextRun ==
    \/ initialize_exchange
    \/ LoopTest
    \/ get_market_data
    \/ get_balance
    \/ RunShouldTrade
    \/ RunShouldTradeReturn
    \/ RunShouldTradeRaise
    \/ RunExecuteOrder
    \/ CleanupCheck
    \/ RunCleanup
    \/ RunCleanupReturn
    \/ RunCleanupRaise
    \/ StepPass("a")
    \/ Sleep
    \/ Interrupt
    \/ Stop
    \/ FinalCleanup
    \/ FinalCancel
    \/ FinalCancelReturn
    \/ FinalCancelRaise
    \/ close
    \/ ExchangeFill
    \/ Tick

SpecRun == InitRun /\ [][NextRun]_vars

\* the functions applied to drawn inputs, with or without an earlier order
InitFunctions ==
    /\ open_orders = <<>>
    /\ exch = [i \in Ids |-> "none"]
    /\ nextId = 1
    /\ returned = {}
    /\ now = 0
    /\ call = NoCall
    /\ config \in FnConfigs
    /\ passes = NoPasses
    /\ last_order_time \in {NoTime, 0}
    /\ heap = [NewHeap EXCEPT
                    !.strategies[1].last_order_time = last_order_time]
    /\ volume_generated_today_usdt = 0
    /\ order_count = 0
    /\ last_order_side = None
    /\ price_walk_step = 0
    /\ BotIdle

NextFunctions ==
    \/ calculate_next_price_target
    \/ calculate_order_size
    \/ CalculateSpread
    \/ should_place_order
    \/ Return
    \/ Tick

SpecFunctions == InitFunctions /\ [][NextFunctions]_vars

\* the validator applied to configurations around its limits
NextConfig ==
    \/ validate_strategy_config
    \/ Return

SpecConfig == Init /\ [][NextConfig]_vars

\* two instances on one exchange, which they share: the caller operates the
\* first, then turns to the second once its call has returned; while a pass of the first is
\* suspended another task may place an order through the same tracker
NextInstances ==
    \/ InstanceShouldTrade
    \/ StepPass("a")
    \/ should_trade_return
    \/ should_trade_raise
    \/ call = NoCall /\ ~InPass("a") /\ place_order
    \/ call = NoCall /\ ~InPass("a") /\ BotExecuteOrder
    \/ InPass("a") /\ PlaceDuringPass
    \/ call = NoCall /\ cancel_open_orders
    \/ call = NoCall /\ cleanup_completed_orders
    \/ InterruptPass("a")
    \/ EndPass("a")
    \/ Return
    \/ ExchangeFill
    \/ Switch

SpecInstances == Init /\ [][NextInstances]_vars

\* two tasks running tracker passes while orders are placed
NextPasses ==
    \/ \E t \in Tasks, kind \in PassKinds :
           /\ open_orders # <<>>
           /\ BeginPass(t, kind)
    \/ \E t \in Tasks : StepPass(t)
    \/ \E t \in Tasks : EndPass(t)
    \/ PlaceDuringPass
    \/ Return
    \/ ExchangeFill

SpecPasses == Init /\ [][NextPasses]_vars

\* ================================================================ claims

\* the id at position p of the last pass left for a reason cancel accepts
CancelGone(p) ==
    \/ call.oc[p].k = "ok"
    \/ call.oc[p].k = "err" /\ call.oc[p].msg \cap {"not found", "already"} # {}

\* the id at position p of the last pass left for a reason cleanup accepts
CleanupGone(p) ==
    \/ call.oc[p].k = "ok" /\ call.oc[p].status \in {"closed", "filled", "canceled"}
    \/ call.oc[p].k = "err" /\ "not found" \in call.oc[p].msg

Returned(op) == call.op = op /\ ~call.raised

NoDuplicates(s) == Len(s) = Cardinality(Range(s))

\* C1: every order placed live with an id returned and still open on the
\* exchange is tracked, and an id leaves the tracker only in a cancel pass
\* where its cancel succeeded or failed with 'not found'/'already', or in a
\* cleanup pass where its status was closed/filled/canceled or the query
\* failed with 'not found'.
C1_OpenOrdersStayTracked ==
    /\ [](\A i \in returned : exch[i] = "open" => i \in Range(open_orders))
    /\ [][\A i \in Range(open_orders) \ Range(open_orders') :
             \/ /\ call'.op = "cancel_open_orders"
                /\ \E p \in 1..Len(call'.before) :
                       call'.before[p] = i /\ CancelGone(p)'
             \/ /\ call'.op = "cleanup_completed_orders"
                /\ \E p \in 1..Len(call'.before) :
                       call'.before[p] = i /\ CleanupGone(p)']_vars

\* a cancel pass that dropped one id and kept another, still open, one
C1_Witness ==
    /\ Returned("cancel_open_orders")
    /\ Len(call.before) = 2
    /\ CancelGone(1)
    /\ call.oc[2] = Err({})
    /\ exch[call.before[2]] = "open"
    /\ call.before[2] \in returned
    /\ open_orders = <<call.before[2]>>

\* C2: after cancel_open_orders returns, the tracker is the tracker from
\* before the call minus exactly the ids whose cancel succeeded or failed
\* with 'not found' or 'already'; ids that failed otherwise are still there.
C2_CancelRemovesExactlyGone ==
    Returned("cancel_open_orders") =>
        /\ Range(open_orders) =
               {call.before[p] : p \in {q \in 1..Len(call.before) : ~CancelGone(q)}}
        /\ NoDuplicates(open_orders)
        /\ \A p \in 1..Len(call.before) :
               (call.oc[p].k = "err" /\ call.oc[p].msg = {})
                   => call.before[p] \in Range(open_orders)

\* one id removed for an 'already' message, one kept for another failure
C2_Witness ==
    /\ Returned("cancel_open_orders")
    /\ Len(call.before) = 2
    /\ call.oc[1] = Err({"already"})
    /\ call.oc[2] = Err({})
    /\ open_orders = <<call.before[2]>>

\* C3: cancel_open_orders returns the number of successful cancel_order
\* calls, not the number of ids removed: with two tracked ids, the first
\* cancel succeeding and the second failing with 'not found', it returns 1
\* and the tracker ends empty.
C3_CancelCountsSuccesses ==
    Returned("cancel_open_orders") =>
        /\ call.ret = Cardinality({p \in 1..Len(call.before) : call.oc[p].k = "ok"})
        /\ (/\ Len(call.before) = 2
            /\ call.oc[1] = Ok
            /\ call.oc[2] = Err({"not found"}))
               => (call.ret = 1 /\ open_orders = <<>>)

C3_Witness ==
    /\ Returned("cancel_open_orders")
    /\ Len(call.before) = 2
    /\ call.oc[1] = Ok
    /\ call.oc[2] = Err({"not found"})
    /\ call.ret = 1
    /\ open_orders = <<>>

\* C4: cleanup_completed_orders removes and counts exactly the tracked ids
\* whose status is closed, filled or canceled or whose query failed with
\* 'not found'; every other id stays tracked and is not counted.
C4_CleanupRemovesExactlyCompleted ==
    Returned("cleanup_completed_orders") =>
        /\ Range(open_orders) =
               {call.before[p] : p \in {q \in 1..Len(call.before) : ~CleanupGone(q)}}
        /\ NoDuplicates(open_orders)
        /\ call.ret = Cardinality({p \in 1..Len(call.before) : CleanupGone(p)})

\* one id removed for status 'filled', one kept although its query failed
\* with an 'already' message
C4_Witness ==
    /\ Returned("cleanup_completed_orders")
    /\ Len(call.before) = 2
    /\ call.oc[1] = Status("filled")
    /\ call.oc[2] = Err({"already"})
    /\ call.ret = 1
    /\ open_orders = <<call.before[2]>>

LivePlace == call.op = "place_order" /\ ~call.req.dry_run

\* what C6 says about tracking and failures
C6_TrackingAndFailure ==
    /\ call.req.outcome = "id" =>
           open_orders = Append(call.before, call.req.newid)
    /\ call.req.outcome = "err" =>
           ~call.raised /\ call.ret.error /\ open_orders = call.before

\* C6 as stated: in live mode place_order submits a limit order when a
\* price is given and a market order otherwise; an id the exchange returns
\* is tracked; a failed exchange call gives an 'error' record, does not
\* raise and leaves the tracker unchanged.
C6_Original ==
    LivePlace =>
        /\ call.req.kind = (IF call.req.price # NoPrice THEN "limit" ELSE "market")
        /\ C6_TrackingAndFailure

\* C6 amended: the limit order is submitted when the price is given and is
\* not zero; a price of None or 0 gives a market order.
C6_LimitIffTruthyPrice ==
    LivePlace =>
        /\ call.req.kind = (IF call.req.price \notin {NoPrice, 0}
                            THEN "limit" ELSE "market")
        /\ C6_TrackingAndFailure

\* a live limit order whose id was returned and is now tracked
C6_Witness ==
    /\ LivePlace
    /\ call.req.kind = "limit"
    /\ call.req.outcome = "id"
    /\ Len(open_orders) = 2
    /\ open_orders[2] = call.req.newid

\* --------------------------------------------------------- should_trade
Decided == call.op = "should_trade" /\ ~call.raised

Unusable == {"absent", "no_price", "none_price", "bad_price"}

\* the last should_trade call was interrupted inside its cancel pass
InterruptedInCancel == \E p \in 1..Len(call.oc) : call.oc[p].k = "interrupt"

\* C7 as stated: should_trade never raises to its caller, whatever fails
\* inside it, a cancellation signal inside the awaited cancel_open_orders
\* included; every failure is reported as (false, 0, {error}).
C7_Original ==
    call.op = "should_trade" =>
        /\ ~call.raised
        /\ call.ret.exc # None =>
               (call.ret.reason = "error" /\ ~call.ret.should_place
                    /\ call.ret.confidence = 0)

\* C7 amended: a failure of class Exception at any step (a last price of
\* None, a malformed order book) is reported as (false, 0, {error}) and
\* never raised; the call raises exactly when a cancellation signal arrives
\* inside the awaited cancel_open_orders.
C7_OnlyCancellationEscapes ==
    call.op = "should_trade" =>
        /\ call.raised <=> InterruptedInCancel
        /\ (~call.raised /\ call.ret.exc # None) =>
               (call.ret.reason = "error" /\ ~call.ret.should_place
                    /\ call.ret.confidence = 0)
        /\ (~call.raised /\ call.req.input = "none_price") =>
               call.ret.reason \in {"waiting", "error"}

\* a malformed order book was caught after the cancel pass ran
C7_Witness ==
    /\ Decided
    /\ call.ret.reason = "error"
    /\ call.ret.exc = "IndexError"
    /\ Len(call.oc) > 0
    /\ call.ret.confidence = 0

\* C8 as stated: a call on an absent snapshot or on a missing or
\* non-positive last price is rejected and mutates nothing, the tracker's
\* open_orders included.
C8_Original ==
    [][(call'.op = "should_trade" /\ ~call'.raised
            /\ call'.req.input \in Unusable)
        => (~call'.ret.should_place /\ UNCHANGED <<stratVars, open_orders>>)]_vars

\* C8 amended: such a call is rejected and leaves last_order_time,
\* order_count, volume_generated, last_order_side and the phase unchanged;
\* open_orders is unchanged when the snapshot is absent, the timing check is
\* not due or cancel_previous_orders is disabled, and otherwise loses exactly
\* the ids the cancel pass, which runs before the price check, resolved.
C8_UnusableInputKeepsStrategyState ==
    [][(call'.op = "should_trade" /\ ~call'.raised
            /\ call'.req.input \in Unusable)
        => /\ ~call'.ret.should_place
           /\ UNCHANGED stratVars
           /\ (call'.req.input = "absent" \/ call'.ret.reason = "waiting"
                   \/ ~config.cancel_previous_orders)
                  => UNCHANGED open_orders
           /\ Range(open_orders') \subseteq Range(open_orders)
           /\ \A p \in 1..Len(call'.oc) :
                  call'.before[p] \in Range(open_orders') <=> ~CancelGone(p)']_vars

\* an invalid price was rejected after the cancel pass emptied the tracker
C8_Witness ==
    /\ Decided
    /\ call.ret.reason = "invalid_price"
    /\ call.req.input = "bad_price"
    /\ Len(call.before) > 0
    /\ open_orders = <<>>
    /\ order_count > 0

Placed == call.op = "should_trade" /\ ~call.raised /\ call.ret.should_place

\* C9 as stated: last_order_time, volume_generated, order_count,
\* last_order_side and the phase change only in a should_trade call that
\* returns should_place = true.
C9_Original == [][stratVars' # stratVars => Placed']_vars

\* C9 amended: last_order_time, volume_generated and order_count change
\* only in a call that returns should_place = true; last_order_side and the
\* phase change only in a call that got past the price check, which
\* includes calls that then return false for a too-wide spread or an error.
C9_CountersOnlyWhenPlaced ==
    [][/\ <<last_order_time, volume_generated_today_usdt, order_count>>'
              # <<last_order_time, volume_generated_today_usdt, order_count>>
          => Placed'
       /\ <<last_order_side, price_walk_step>>' # <<last_order_side, price_walk_step>>
          => (call'.op = "should_trade" /\ ~call'.raised
                  /\ "target" \in Range(call'.ret.steps))]_vars

\* a call rejected for its spread that still chose a side and moved the phase
C9_Witness ==
    /\ Decided
    /\ call.ret.reason = "decision"
    /\ ~call.ret.spread_ok
    /\ ~call.ret.should_place
    /\ last_order_side # None
    /\ price_walk_step > 0
    /\ order_count = 0
    /\ last_order_time = NoTime

\* C10: a call that returns should_place = true sets last_order_time to
\* the current time, adds 1 to order_count and adds order_size *
\* current_price, as reported, to volume_generated; both counters are
\* non-negative and never decrease.
C10_PlaceUpdatesCounters ==
    /\ [][Placed' =>
            /\ last_order_time' = now'
            /\ order_count' = order_count + 1
            /\ volume_generated_today_usdt' =
                   volume_generated_today_usdt
                       + call'.ret.order_size * call'.ret.current_price]_vars
    /\ [](order_count >= 0 /\ volume_generated_today_usdt >= 0)
    /\ [][/\ order_count' >= order_count
          /\ volume_generated_today_usdt' >= volume_generated_today_usdt]_vars

\* the second place decision, taken at a later time than the first
C10_Witness ==
    /\ Placed
    /\ order_count = 2
    /\ last_order_time = now
    /\ now > 0
    /\ volume_generated_today_usdt >=
           2 * config.min_order_value_usdt * ValueScale

\* ------------------------------------------------------------- run loop
\* C5: on every shutdown path, if ids are still tracked when the exchange
\* connection is about to be released (bot.close()), the final cleanup has
\* invoked cancel_open_orders before.
C5_FinalCancelBeforeClose ==
    (pc \in {"close", "closed"} /\ open_orders # <<>>) => final_cancel

\* ------------------------------------------------ decision cycle, in order
\* the position of step x in the list of steps a call went through
Pos(steps, x) == CHOOSE i \in 1..Len(steps) : steps[i] = x

\* C11: with cancel_previous_orders enabled, a call that computes target,
\* side and size has before that run a cancel pass over every tracked id,
\* which got its last answer before the call went on, and the caller places
\* the order only after such a call has returned, never while the pass is
\* suspended; with cancel_previous_orders disabled no call makes a cancel
\* pass.
C11_CancelPrecedesSizing ==
    /\ [](InPass("a") => (config.cancel_previous_orders /\ call = NoCall))
    /\ [][(call'.op = "should_trade" /\ ~call'.raised /\ InPass("a"))
            => (PassAnswered("a") /\ ~InPass("a")')]_vars
    /\ [](call.op = "should_trade" =>
            IF config.cancel_previous_orders
            THEN "target" \in Range(call.ret.steps) =>
                    /\ "cancel" \in Range(call.ret.steps)
                    /\ Pos(call.ret.steps, "cancel") < Pos(call.ret.steps, "target")
                    /\ Len(call.oc) = Len(call.before)
                    /\ \A p \in 1..Len(call.oc) : call.oc[p].k \in {"ok", "err"}
            ELSE /\ "cancel" \notin Range(call.ret.steps)
                 /\ call.oc = <<>>
                 /\ open_orders = call.before)
    /\ [][call'.op = "place_order" =>
            /\ call.op = "should_trade"
            /\ call.ret.should_place
            /\ config.cancel_previous_orders =>
                   Pos(call.ret.steps, "cancel") < Pos(call.ret.steps, "size")]_vars

\* a place decision whose cancel pass took the tracked id away first
C11_Witness ==
    /\ Placed
    /\ config.cancel_previous_orders
    /\ Len(call.before) > 0
    /\ call.oc[1].k = "ok"
    /\ open_orders = <<>>
    /\ Pos(call.ret.steps, "cancel") = 2

\* the last should_trade call reached the acceptance rule of lines 250-252
ReachedRule == Decided /\ call.ret.reason = "decision"

\* C12: for every result that reaches the acceptance rule, should_place is
\* true exactly when spread_ok holds and the returned confidence is above
\* 0.5 (5 tenths).
C12_PlaceIffSpreadOkAndConfident ==
    ReachedRule =>
        (call.ret.should_place <=>
            (call.ret.spread <= config.max_spread_threshold
                 /\ call.ret.confidence > 5))

\* a too-wide spread with the catch-up bonus: the returned confidence is
\* exactly 0.5 and the order is not placed
C12_Witness ==
    /\ ReachedRule
    /\ call.ret.spread > config.max_spread_threshold
    /\ call.ret.confidence = 5
    /\ ~call.ret.should_place

\* C13: the returned confidence is within [0,1]; it is 0 on every
\* rejection (no data, not due, invalid price, internal error); otherwise it
\* is 0.7 when spread <= max_spread_threshold and 0.3 when not, plus 0.2
\* exactly when the volume rate is below 80% of the target hourly rate.
C13_ConfidenceValue ==
    Decided =>
        /\ call.ret.confidence \in 0..10
        /\ call.ret.reason \in {"no_data", "waiting", "invalid_price", "error"}
               => call.ret.confidence = 0
        /\ call.ret.reason = "decision" =>
               call.ret.confidence =
                   (IF call.ret.spread <= config.max_spread_threshold
                    THEN 7 ELSE 3)
                   + (IF call.ret.volume_rate_usdt
                             < config.target_volume_usdt_per_hour * 8
                      THEN 2 ELSE 0)

\* a decision taken when the volume rate has caught up with the target: the
\* confidence is 0.7 without the bonus
C13_Witness ==
    /\ ReachedRule
    /\ call.ret.volume_rate_usdt >= config.target_volume_usdt_per_hour * 8
    /\ call.ret.spread <= config.max_spread_threshold
    /\ call.ret.confidence = 7
    /\ order_count = 2

\* a call of calculate_next_price_target has just returned
TargetReturned == call.op = "calculate_next_price_target"

\* C14: whatever the direction, the deviation and the draws, the target
\* calculate_next_price_target returns lies between
\* current_price * (1 - max_price_deviation) and
\* current_price * (1 + max_price_deviation).
C14_TargetWithinDeviation ==
    TargetReturned =>
        /\ call.req.current_price * (PScale - config.max_price_deviation)
               <= call.ret
        /\ call.ret <= call.req.current_price
                           * (PScale + config.max_price_deviation)

\* the walk stepped further than the deviation allows and the target was
\* held at the upper limit
C14_Witness ==
    /\ TargetReturned
    /\ config.max_price_deviation = 100
    /\ call.ret = call.req.current_price * (PScale + config.max_price_deviation)

\* C15: with direction 'up' the target is never below the current price; for
\* current_price 100 and max_price_deviation 0.01 it lies in [100, 101].
C15_UpNeverBelow ==
    (TargetReturned /\ config.price_walk_direction = "up") =>
        /\ call.ret >= call.req.current_price * PScale
        /\ (call.req.current_price = 100 /\ config.max_price_deviation = 1000)
               => call.ret <= 101 * PScale

\* direction 'up' at price 100 with deviation 0.01: the smallest step, half
\* of the base step, puts the target strictly between 100 and 101
C15_Witness ==
    /\ TargetReturned
    /\ config.price_walk_direction = "up"
    /\ config.max_price_deviation = 1000
    /\ call.req.current_price = 100
    /\ call.ret = 100 * PScale + BaseStep(100) \div 2

\* a call of calculate_order_size has just returned
SizeReturned == call.op = "calculate_order_size"

\* C16: for every balance, order book, pair of ratios and current_price > 0
\* the size calculate_order_size returns is worth at least
\* min_order_value_usdt at the current price; with balance 1000, ratios
\* 0.001..0.005, minimum 5 and price 0.002 the size is at least 2500.
C16_SizeMeetsMinimumValue ==
    (SizeReturned /\ call.req.current_price > 0) =>
        /\ ~ValueBelow(call.ret, call.req.current_price,
                       config.min_order_value_usdt)
        /\ (/\ call.req.available_balance = 1000
            /\ call.req.current_price = 2
            /\ config.min_order_ratio = 1
            /\ config.max_order_ratio = 5
            /\ config.min_order_value_usdt = 5)
               => call.ret >= 2500 * SizeScale

\* a call of should_place_order has just returned, after an earlier order
DueChecked == call.op = "should_place_order" /\ last_order_time # NoTime

\* no timing randomization and no regime can occur
Deterministic(cfg) ==
    /\ cfg.timing_randomization = 0
    /\ cfg.burst_probability = 0
    /\ cfg.quiet_probability = 0

\* C17: with timing_randomization, burst_probability and quiet_probability
\* all 0 and last_order_time set, should_place_order returns true exactly
\* when the time since last_order_time is at least order_frequency.
C17_DeterministicDue ==
    (DueChecked /\ Deterministic(config)) =>
        (call.ret.due <=>
            (now - last_order_time) * TickSeconds >= config.order_frequency)

\* exactly order_frequency seconds have passed and the order is due
C17_Witness ==
    /\ DueChecked
    /\ Deterministic(config)
    /\ (now - last_order_time) * TickSeconds = config.order_frequency
    /\ call.ret.due

\* C18: one should_place_order call applies at most one regime multiplier to
\* the randomized interval: the burst multiplier when the burst draw
\* succeeds, otherwise the quiet multiplier when the quiet draw succeeds,
\* otherwise none; never both.
C18_OneRegimePerCall ==
    DueChecked =>
        LET base == config.order_frequency * (100 + call.req.u)
            burst == call.req.r1 < config.burst_probability
            quiet == call.req.r2 < config.quiet_probability
        IN /\ burst => call.ret.interval = base * BURST_MODE_INTERVAL_MULTIPLIER
           /\ (~burst /\ quiet)
                  => call.ret.interval = base * QUIET_MODE_INTERVAL_MULTIPLIER
           /\ (~burst /\ ~quiet) => call.ret.interval = base * 10
           /\ call.ret.interval
                  # (base * BURST_MODE_INTERVAL_MULTIPLIER
                         * QUIET_MODE_INTERVAL_MULTIPLIER) \div 10

\* both draws are below their probabilities and only the burst multiplier
\* was applied
C18_Witness ==
    /\ DueChecked
    /\ call.req.r1 < config.burst_probability
    /\ call.req.r2 < config.quiet_probability
    /\ call.ret.interval = config.order_frequency * (100 + call.req.u)
                               * BURST_MODE_INTERVAL_MULTIPLIER

\* a place_order call in dry-run mode has just returned
DryRunPlace == call.op = "place_order" /\ call.req.dry_run

\* C19: in dry-run mode place_order makes no exchange call, leaves
\* open_orders unchanged and returns a record with status 'closed' that
\* carries the requested side, amount and price.
C19_DryRunRecord ==
    DryRunPlace =>
        /\ call.req.kind = None
        /\ open_orders = call.before
        /\ ~call.ret.error
        /\ call.ret.status = "closed"
        /\ call.ret.side = call.req.side
        /\ call.ret.amount = call.req.amount
        /\ call.ret.price = call.req.price

\* a dry-run place_order call has just returned its synthesized record
DryRunPlaced == DryRunPlace /\ ~call.ret.error

\* C20: two dry-run place_order calls of one process return records with
\* distinct ids; stated for a call and the next one.
C20_DryRunIdsDistinct ==
    [][(DryRunPlaced /\ DryRunPlaced') => call'.ret.id # call.ret.id]_vars

\* C21: cancel_open_orders on an empty tracker returns 0, makes no exchange
\* call and leaves the tracker empty, every time it is called.
C21_EmptyCancelIsNoOp ==
    [][(call'.op = "cancel_open_orders" /\ open_orders = <<>>) =>
           /\ ~call'.raised
           /\ call'.ret = 0
           /\ call'.oc = <<>>
           /\ open_orders' = <<>>
           /\ exch' = exch]_vars

\* a pass over an empty tracker returned 0 while an order the tracker does
\* not hold is open on the exchange, and it is still open
C21_Witness ==
    /\ Returned("cancel_open_orders")
    /\ call.before = <<>>
    /\ call.ret = 0
    /\ open_orders = <<>>
    /\ \E i \in Ids : exch[i] = "open"

\* a call of calculate_spread has just returned
SpreadReturned == call.op = "calculate_spread"

\* C22: calculate_spread returns (best_ask - best_bid) / best_bid when both
\* sides of the book are non-empty and best_bid > 0, and 0 when a side is
\* empty or best_bid <= 0; bid 100 and ask 101 give 0.01.  The spread is in
\* basis points, rounded down.
C22_SpreadFormula ==
    SpreadReturned =>
        LET ob == call.req.orderbook
        IN IF ob.bids # <<>> /\ ob.asks # <<>> /\ ob.bids[1][1] > 0
           THEN /\ call.ret * ob.bids[1][1]
                       <= (ob.asks[1][1] - ob.bids[1][1]) * 10000
                /\ (ob.asks[1][1] - ob.bids[1][1]) * 10000
                       < (call.ret + 1) * ob.bids[1][1]
                /\ (ob.bids[1][1] = 100 /\ ob.asks[1][1] = 101)
                       => call.ret = 100
           ELSE call.ret = 0

\* bid 100 and ask 110: a spread of 0.1
C22_Witness ==
    /\ SpreadReturned
    /\ call.req.orderbook = WideBook
    /\ call.ret = 1000

\* a call of validate_strategy_config has just ended
ConfigValidated == call.op = "validate_strategy_config"

\* x is a number in [lo, hi]
Within(x, lo, hi) == x # NaN /\ lo <= x /\ x <= hi

\* the constraints C23 lists, on a configuration in the validator's units
Constraints(c) ==
    /\ Within(c.target_volume_usdt_per_hour, 1, c.target_volume_usdt_per_hour)
    /\ c.price_walk_direction \in {"up", "down", "sideways", "random"}
    /\ Within(c.max_price_deviation, 1, PScale \div 10)
    /\ Within(c.order_frequency, 2, c.order_frequency)
    /\ Within(c.min_order_ratio, 1, 1000)
    /\ Within(c.max_order_ratio, 1, 1000)
    /\ c.min_order_ratio < c.max_order_ratio
    /\ Within(c.size_randomization, 0, 10)
    /\ Within(c.timing_randomization, 0, 100)
    /\ Within(c.burst_probability, 0, 100)
    /\ Within(c.quiet_probability, 0, 100)
    /\ Within(c.min_order_value_usdt, 1, c.min_order_value_usdt)
    /\ Within(c.max_spread_threshold, 1, 10000)

\* C23: validate_strategy_config returns a configuration exactly when all
\* of its constraints hold and raises ConfigValidationError otherwise, so a
\* returned configuration has min_order_ratio < max_order_ratio.
C23_ReturnsOnlyValidConfigs ==
    ConfigValidated =>
        /\ ~call.raised <=> Constraints(call.req)
        /\ ~call.raised =>
               /\ call.ret.order_frequency >= 1
               /\ Lt(call.ret.min_order_ratio, call.ret.max_order_ratio)

\* the operations of one instance
InstanceOps ==
    {"should_trade", "place_order", "cancel_open_orders",
     "cleanup_completed_orders"}

\* the variables the operations work on are the attributes self reaches
SelfStored ==
    Attributes(heap, heap.self) =
        [open_orders |-> open_orders,
         strategy |-> [last_order_time |-> last_order_time,
                       volume_generated_today_usdt |->
                           volume_generated_today_usdt,
                       order_count |-> order_count],
         price_strategy |-> [last_order_side |-> last_order_side,
                             price_walk_step |-> price_walk_step]]

\* the attributes of the instances the caller is not operating are the
\* same after the step as before
OthersKeep ==
    \A n \in Instances \ {heap.self} :
        Attributes(heap', n) = Attributes(heap, n)

\* C24: should_trade, place_order, cancel_open_orders and
\* cleanup_completed_orders on one instance work on the objects that
\* instance refers to and, at their return and at every step of their
\* passes, leave the StrategyState, the last side, the phase and the
\* open_orders of the other instance unchanged.
C24_InstancesAreIsolated ==
    /\ []SelfStored
    /\ [][(call'.op \in InstanceOps \/ passes' # passes) => OthersKeep]_vars

\* the first instance tracks an order and has placed one; the second, on
\* the same exchange, has just placed and tracked an order of its own, which
\* the list of the first does not hold
C24_Witness ==
    /\ heap.self = 2
    /\ call.op = "place_order"
    /\ call.req.outcome = "id"
    /\ open_orders = <<call.req.newid>>
    /\ Attributes(heap, 1).open_orders # <<>>
    /\ Attributes(heap, 1).strategy.order_count > 0
    /\ Attributes(heap, 1).price_strategy.last_order_side # None
    /\ call.req.newid \notin Range(Attributes(heap, 1).open_orders)
    /\ exch[Attributes(heap, 1).open_orders[1]] # "none"

\* C25: the price-walk phase starts at 0 and never decreases; a
\* calculate_next_price_target call in sideways mode increases it by an
\* amount between 0.1 and 0.3 and a call in another mode leaves it unchanged.
C25_PhaseOnlyAdvances ==
    /\ price_walk_step = 0
    /\ [][/\ price_walk_step' >= price_walk_step
          /\ call'.op = "calculate_next_price_target" =>
                 IF config.price_walk_direction = "sideways"
                 THEN price_walk_step' - price_walk_step \in 1..3
                 ELSE price_walk_step' = price_walk_step]_vars

\* two sideways calls have advanced the phase by 0.1 and by 0.3
C25_Witness ==
    /\ TargetReturned
    /\ config.price_walk_direction = "sideways"
    /\ price_walk_step = 4

\* the timing check of the last should_trade call reported not due
NotDue == call.op = "should_trade" /\ call.ret.reason = "waiting"

\* C26: when the timing check reports not due, should_trade returns
\* (false, 0, {waiting_for_timing: true}) without a cancel pass, without an
\* exchange call and without changing the StrategyState, the last side,
\* the phase or open_orders.
C26_NotDueLeavesEverything ==
    [][NotDue' =>
           /\ ~call'.raised
           /\ ~call'.ret.should_place
           /\ call'.ret.confidence = 0
           /\ call'.ret.steps = <<"timing">>
           /\ call'.oc = <<>>
           /\ exch' = exch
           /\ open_orders' = open_orders
           /\ stratVars' = stratVars]_vars

\* not due while an order is tracked and open, with the cancel pass enabled:
\* the order is still tracked and open
C26_Witness ==
    /\ NotDue
    /\ config.cancel_previous_orders
    /\ open_orders # <<>>
    /\ exch[open_orders[1]] = "open"
    /\ order_count > 0

\* C27: the 'Logic error' branch of the run loop is never taken: once the
\* balance check has passed, the final size is worth at least the minimum
\* order value and the final verification passes.
C27_LogicErrorUnreachable == pc # "sleep_logic_error"

\* the size the balance limit allows is worth less than the minimum order
\* value at this price
LimitBelowMinimum(available_balance, price) ==
    MaxBalanceSize(available_balance)
        < (config.MIN_ORDER_VALUE_USDT * ValueScale + price - 1) \div price

\* C28: every order the run loop submits through execute_order has a size
\* of at most MAX_BALANCE_USAGE_RATIO (10%) of the balance fetched in that
\* iteration, and an iteration in which that limit cannot meet the minimum
\* order value submits no order.
C28_OrderWithinBalanceLimit ==
    [][/\ (pc \in {"should_trade", "should_trade_cancel"}
               /\ pc' = "execute_order") =>
              /\ order'.size * 10
                     <= balance * MAX_BALANCE_USAGE_RATIO * SizeScale
              /\ ~LimitBelowMinimum(balance, order'.price)
       /\ (pc = "execute_order" /\ call'.op = "place_order") =>
              call'.req.amount = order.size]_vars

\* the strategy asked for more than a tenth of the balance and the order
\* about to be submitted is exactly that tenth
C28_Witness ==
    /\ pc = "execute_order"
    /\ call.op = "should_trade"
    /\ call.ret.order_size > order.size
    /\ order.size = MaxBalanceSize(10000)

\* half of the smaller top-of-book volume of the order book of the call, in
\* 1/SizeScale tokens
LiquidityCap ==
    LET liq == get_available_liquidity(call.req.orderbook)
    IN (Min(liq.bid_volume, liq.ask_volume) * SizeScale
            * LIQUIDITY_USAGE_RATIO) \div 10

\* calculate_order_size has returned for a book with both top-of-book
\* volumes positive
SizedOnLiquidBook ==
    /\ SizeReturned
    /\ get_available_liquidity(call.req.orderbook).bid_volume > 0
    /\ get_available_liquidity(call.req.orderbook).ask_volume > 0

\* C29 (as stated): whenever both top-of-book volumes are positive, the size
\* calculate_order_size returns is at most LIQUIDITY_USAGE_RATIO (50%) of the
\* smaller of the best-bid and best-ask volumes.
C29_SizeWithinLiquidity ==
    SizedOnLiquidBook => call.ret <= LiquidityCap

\* C29 (amended): whenever both top-of-book volumes are positive and the
\* current price is positive, the size calculate_order_size returns is at
\* most the larger of 50% of the smaller top-of-book volume and the
\* minimum-value floor min_order_value_usdt / current_price.
C29_SizeWithinLiquidityOrFloor ==
    (SizedOnLiquidBook /\ call.req.current_price > 0) =>
        call.ret <= Max(LiquidityCap,
                        (config.min_order_value_usdt * ValueScale)
                            \div call.req.current_price)

\* the ratio-based size (1000 * 0.05 * 1.3 = 65 tokens) is above the cap of
\* 55 tokens, the floor (5 / 0.1 = 50 tokens) is below it, and the size
\* returned is the cap
C29_Witness ==
    /\ SizedOnLiquidBook
    /\ call.req.available_balance = 1000
    /\ call.req.current_price = 100
    /\ config.max_order_ratio = 50
    /\ call.ret = LiquidityCap
    /\ call.ret = 55 * SizeScale

\* the iteration under way is over, with one of the outcomes no market
\* data, no balance, balance too low, no trade or an order placed: only the
\* sleep before the next loop test is left
IterationOver ==
    pc \in {"sleep_no_data", "sleep_no_balance", "sleep_balance_low",
            "sleep_check"}

\* C30: once more than ORDER_CLEANUP_INTERVAL seconds have passed since the
\* last reconciliation, the next loop iteration runs
\* cleanup_completed_orders, whatever its outcome: no iteration that began
\* with the interval passed is over without having cleaned up.
C30_CleanupEveryInterval == IterationOver => ~cleanup_due

\* C31: run_volume_generation called with a duration_hours other than None
\* stops iterating once the current time reaches start time +
\* duration_hours and then performs the final cleanup; only
\* duration_hours = None runs without a time limit.  The deadline of a
\* duration of 0 is the start time itself; that of a positive duration is
\* the end_time computed at the start.
C31_DurationLimitsTheRun ==
    [][/\ (pc = "initialize_exchange" /\ pc' = "while"
               /\ duration_hours' # NoTime /\ duration_hours' > 0) =>
              end_time' = now + duration_hours' * (3600 \div TickSeconds)
       /\ (pc = "while" /\ pc' = "get_market_data") =>
              \/ duration_hours = NoTime
              \/ duration_hours > 0 /\ end_time # NoTime /\ now < end_time
       /\ (pc = "while" /\ pc' # "while" /\ pc' # "get_market_data") =>
              pc' = "final"]_vars

\* C32: an ordinary failure (Exception) raised in a run-loop iteration never
\* ends the run.  The TypeError of `balance <= 0` on a balance of None is
\* caught, the loop waits ERROR_RETRY_WAIT and goes back to the loop test
\* (only an interruption of that wait leaves the loop); a placement that
\* failed inside place_order comes back as an error record and the iteration
\* goes on; and the loop test ends the loop only when running is false or
\* the end time is reached.
C32_FailuresNeverEndTheRun ==
    [][/\ (pc = "get_balance" /\ balance' = NoBalance) =>
              pc' = "sleep_error_retry"
       /\ (pc = "sleep_error_retry" /\ pc' # pc) => pc' \in {"while", "close"}
       /\ (pc = "execute_order" /\ call'.op = "place_order" /\ ~call'.raised) =>
              pc' = "cleanup_check"
       /\ (pc = "while" /\ pc' = "final") =>
              (~running \/ (end_time # NoTime /\ now >= end_time))]_vars

\* the balance came back as None and the loop is waiting in its handler,
\* still running
C32_Witness ==
    pc = "sleep_error_retry" /\ balance = NoBalance /\ running

\* task t finishes its pass in this step
PassEnds(t) == PassAnswered(t) /\ ~InPass(t)'

\* C33: ids appended to open_orders while cancel_open_orders or
\* cleanup_completed_orders is suspended on an exchange call are not part of
\* that pass: the pass asks the exchange only about ids that were tracked
\* when it started and its removal leaves every other id tracked; and a pass
\* that resolved an id another pass resolved too ends normally, with the id
\* no longer tracked.
C33_PassesWorkOnTheirSnapshot ==
    /\ [](\A t \in Tasks : passes[t].asked \subseteq Range(passes[t].start))
    /\ [][\A t \in Tasks :
            PassEnds(t) =>
                /\ \A id \in Ids \ Range(passes[t].start) :
                       id \in Range(open_orders) <=> id \in Range(open_orders')
                /\ \A id \in Range(passes[t].orders_to_remove) :
                       id \notin Range(open_orders')]_vars

\* both tasks have finished their passes; the cancel pass that returned
\* last was told 'already' about an id the other pass had cancelled, the id
\* is no longer tracked, and an id appended after the pass took its
\* snapshot is still tracked
C33_Witness ==
    /\ \A t \in Tasks : ~InPass(t)
    /\ Returned("cancel_open_orders")
    /\ \E p \in 1..Len(call.before) :
           /\ call.oc[p] = Err({"already"})
           /\ exch[call.before[p]] = "canceled"
           /\ call.before[p] \notin Range(open_orders)
    /\ Range(open_orders) \ Range(call.before) # {}

\* C34: in every reachable state of the run loop stats.total_orders <=
\* strategy.order_count: should_trade counts every place decision when it
\* takes it, whatever the loop then does with it, and the loop counts a
\* placement only when place_order returned a record without 'error'.
C34_StatsNeverAheadOfStrategy ==
    /\ [](total_orders <= order_count)
    /\ [][/\ (pc \in {"should_trade", "should_trade_cancel"}
                  /\ call'.op = "should_trade"
                  /\ ~call'.raised /\ call'.ret.should_place) =>
                 order_count' = order_count + 1
          /\ (pc = "execute_order" /\ call'.op = "place_order") =>
                 total_orders' = IF ~call'.raised /\ ~call'.ret.error
                                 THEN total_orders + 1 ELSE total_orders]_vars

\* the loop has counted a placement, and the strategy has counted a
\* decision more than the loop has placements
C34_Witness == total_orders > 0 /\ total_orders < order_count

\* the cancel_order call answered with o succeeded or failed with a
\* 'not found' / 'already' message
CancelAnswered(o) ==
    \/ o.k = "ok"
    \/ o.k = "err" /\ ("not found" \in o.msg \/ "already" \in o.msg)

\* so did every cancel_order call of the cancel pass under way and of the
\* pass recorded in `call`, if there is one
CancelsAnswered ==
    /\ passes["a"].kind = "cancel" =>
           \A i \in DOMAIN passes["a"].oc : CancelAnswered(passes["a"].oc[i])
    /\ call.op \in {"should_trade", "cancel_open_orders"} =>
           \A i \in DOMAIN call.oc : CancelAnswered(call.oc[i])

\* C35: with cancel_previous_orders enabled and every cancel_order call
\* either succeeding or failing with a 'not found' / 'already' message, the
\* run loop never tracks more than one id.
C35_AtMostOneTracked ==
    []CancelsAnswered =>
        [](config.cancel_previous_orders => Len(open_orders) <= 1)

\* the loop has placed its second order and tracks one id: the first one
\* was cancelled by the pass of the second decision
C35_Witness ==
    /\ config.cancel_previous_orders
    /\ total_orders = 2
    /\ Len(open_orders) = 1
    /\ call.op = "place_order"
    /\ call.before = <<>>

\* C36: if place_order returns a record containing 'error', the call
\* created no order that it tracks: open_orders is the same as before the
\* call, for limit orders (price given) and market orders (price absent)
\* alike.
C36_ErrorMeansNothingTracked ==
    (call.op = "place_order" /\ ~call.raised /\ call.ret.error) =>
        open_orders = call.before

\* the time since last_order_time, in thousandths of a second
ElapsedMs == (now - last_order_time) * TickSeconds * 1000

\* C37: for last_order_time set and timing_randomization tr in [0, 1], for
\* every outcome of the random draws, should_place_order returns true
\* whenever elapsed >= order_frequency * (1 + tr) * 3.0 and false whenever
\* elapsed < order_frequency * (1 - tr) * 0.3.
C37_DueWithinRegimeBounds ==
    (DueChecked /\ config.timing_randomization \in 0..100) =>
        /\ ElapsedMs >= config.order_frequency
                            * (100 + config.timing_randomization)
                            * QUIET_MODE_INTERVAL_MULTIPLIER
               => call.ret.due
        /\ ElapsedMs < config.order_frequency
                           * (100 - config.timing_randomization)
                           * BURST_MODE_INTERVAL_MULTIPLIER
               => ~call.ret.due

\* the longest interval the draws can give (the largest timing draw in the
\* quiet regime) is exactly the time that has passed, and the order is due
C37_Witness ==
    /\ DueChecked
    /\ config.timing_randomization > 0
    /\ call.req.u = config.timing_randomization
    /\ call.ret.interval = config.order_frequency
                               * (100 + config.timing_randomization)
                               * QUIET_MODE_INTERVAL_MULTIPLIER
    /\ call.ret.interval = ElapsedMs
    /\ call.ret.due

\* the last should_trade call found the timing check due: it went through
\* the check and did not return at it
TimingDue ==
    /\ \E i \in 1..Len(call.ret.steps) : call.ret.steps[i] = "timing"
    /\ call.ret.reason # "waiting"

\* the first entry of each non-empty side carries a price, so that
\* calculate_spread has a value
SpreadKnown(ob) ==
    /\ ob.bids # <<>> => Len(ob.bids[1]) >= 1
    /\ ob.asks # <<>> => Len(ob.asks[1]) >= 1

\* the spread of the book the call was given is within max_spread_threshold
SpreadWithin ==
    /\ SpreadKnown(call.req.orderbook)
    /\ calculate_spread(call.req.orderbook) <= config.max_spread_threshold

\* C38: should_trade returns should_place = true exactly when market data is
\* present with a last price > 0, the timing check is due and the spread of
\* the order book is <= max_spread_threshold; the balance, the computed
\* size, the liquidity, the target price and the volume rate have no part in
\* it, and a book with an empty side (spread 0) does not block placement.
C38_PlaceIffDueAndSpreadWithin ==
    Decided =>
        (call.ret.should_place <=>
            (/\ call.req.input = "usable"
             /\ TimingDue
             /\ SpreadWithin))

\* an order placed on a book without asks, at spread 0
C38_Witness ==
    /\ Decided
    /\ call.req.orderbook = OneSidedBook
    /\ call.ret.should_place
    /\ call.ret.spread = 0

====
